---- MODULE Spec2Model ----
(***************************************************************************)
(* Click ledger and asynchronous enrichment engine of the link tracker:    *)
(* the in-memory link registry and click store (lib/storage.ts), the       *)
(* geolocation lookup with its fallback (lib/location.ts) and the request  *)
(* handlers that interleave on them (app/t, app/api/track, app/api/links). *)
(*                                                                         *)
(* JavaScript runs one event-loop task, with the promise continuations it   *)
(* makes runnable, before the next one. One action is one such task: the   *)
(* arrival of a request up to the handler's first wait for the network, or *)
(* the arrival of a resolver's answer with the continuations it resumes.   *)
(***************************************************************************)
EXTENDS Integers, Sequences, FiniteSets, TLC

\* ------------------------------------------------------------- bounds
\* Link ids ever issued (the sample link included) while tracking requests
\* are served (Spec).
MaxLinks == 2
\* Link ids ever issued when only the registry is operated (SpecRegistry).
MaxRegistryLinks == 3
\* Click ids ever issued by the tracking handlers.
MaxClicks == 2
\* The clock's last value (milliseconds are abstracted to ticks).
MaxTime == 2
\* Link ids ever issued when the statistics are exercised (SpecStats).
MaxStatsLinks == 3
\* Clicks appended when the analytics are exercised (SpecAnalytics).
MaxAnalyticsClicks == 2
\* Link ids ever issued when a short code is reused (SpecReuse).
MaxReuseLinks == 3
\* Clicks appended when the referers are exercised (SpecReferers).
MaxRefererClicks == 11

\* ------------------------------------------------------- optional values
\* An optional field is <<>> when undefined and <<v>> when set.
Absent == <<>>
Some(v) == <<v>>
IsSet(o) == o # <<>>

\* ---------------------------------------------------------------- data
\* Short codes: generateShortCode draws 6 alphanumeric characters, a custom
\* code is any 3..20 characters of [a-zA-Z0-9_-], so a custom code may be
\* one that the generator can draw too.
GenCodes == {"abc123", "Zz9Zz9"}
CustomCodes == {"abc123"}
RegistryCustomCodes == {"abc123", "promo"}
Codes == GenCodes \cup CustomCodes
Urls == {"https://other.org/page"}

\* Ids: `link_${Date.now()}_${random}` and `click_${Date.now()}_${random}`
\* are taken to be fresh; the n-th id issued is the n-th name of the table.
LinkIdNames == <<"link_1", "link_2", "link_3", "link_4", "link_5", "link_6">>
ClickIdNames ==
    <<"click_a", "click_b", "click_c", "click_d", "click_e", "click_f",
      "click_g", "click_h", "click_i", "click_j", "click_k", "click_l",
      "click_m">>

\* IPv4 addresses as their four parts.
DemoIP == <<8, 8, 8, 8>>
PublicIP == <<1, 1, 1, 1>>
PrivateIP == <<10, 0, 0, 1>>
LoopbackIP == <<127, 0, 0, 1>>
LinkLocalIP == <<169, 254, 1, 1>>
MalformedIP == <<256, 1, 1, 1>>
SeedIP1 == <<192, 168, 1, 1>>
SeedIP2 == <<203, 0, 113, 1>>

\* Validate IP address format: every part in 0..255.
isValidIP(ip) == Len(ip) = 4 /\ \A i \in 1..4 : ip[i] >= 0 /\ ip[i] <= 255

\* Check if IP is private/local.
isPrivateIP(ip) ==
    \/ ip[1] = 10
    \/ (ip[1] = 172 /\ ip[2] >= 16 /\ ip[2] <= 31)
    \/ (ip[1] = 192 /\ ip[2] = 168)
    \/ ip[1] = 127

\* Get client IP from request headers: the first header value that is a
\* valid, non-private address, else the demo address.
getClientIP(req) ==
    IF IsSet(req.xff) /\ isValidIP(req.xff[1]) /\ ~isPrivateIP(req.xff[1])
    THEN req.xff[1]
    ELSE DemoIP

\* sanitizeUserAgent: undefined gives 'Unknown', else the harmful
\* characters < > " ' are removed (the table lists the strings in use).
StripHarmful(ua) == IF ua = "<bot>" THEN "bot" ELSE ua
sanitizeUserAgent(ua) == IF ~IsSet(ua) THEN "Unknown" ELSE StripHarmful(ua[1])

\* Hosts of the referring sites in use.
SiteHosts ==
    <<"s1.example", "s2.example", "s3.example", "s4.example", "s5.example",
      "s6.example", "s7.example", "s8.example", "s9.example">>

\* Their origins, and the URLs of a page of each.
SiteOrigins == [i \in 1..Len(SiteHosts) |-> "https://" \o SiteHosts[i]]
SiteUrls == [i \in 1..Len(SiteHosts) |-> SiteOrigins[i] \o "/p"]

\* new URL(s): the parse of the strings in use; ok = FALSE when it throws.
ParseURL(s) ==
    IF s = "https://google.com/search?q=x"
    THEN [ok |-> TRUE, origin |-> "https://google.com", pathname |-> "/search",
          hostname |-> "google.com"]
    ELSE IF s = "https://google.com/search"
    THEN [ok |-> TRUE, origin |-> "https://google.com", pathname |-> "/search",
          hostname |-> "google.com"]
    ELSE IF s = "https://google.com"
    THEN [ok |-> TRUE, origin |-> "https://google.com", pathname |-> "/",
          hostname |-> "google.com"]
    ELSE IF \E i \in 1..Len(SiteUrls) : s = SiteUrls[i]
    THEN LET i == CHOOSE i \in 1..Len(SiteUrls) : s = SiteUrls[i]
         IN  [ok |-> TRUE, origin |-> SiteOrigins[i],
              pathname |-> "/p", hostname |-> SiteHosts[i]]
    ELSE [ok |-> FALSE, origin |-> "", pathname |-> "", hostname |-> ""]

\* String concatenation of origin and pathname for the strings in use.
Concat(a, b) ==
    IF a = "https://google.com" /\ b = "/search" THEN "https://google.com/search"
    ELSE IF a = "https://google.com" /\ b = "/" THEN "https://google.com/"
    ELSE "?"

\* sanitizeReferer: undefined or unparseable gives undefined, else
\* origin + pathname (query and fragment dropped).
sanitizeReferer(referer) ==
    IF ~IsSet(referer) THEN Absent
    ELSE LET url == ParseURL(referer[1])
         IN  IF url.ok THEN Some(Concat(url.origin, url.pathname)) ELSE Absent

\* Addresses getLocationFromIP is called with, and forwarded-for header
\* values, when the lookup is exercised on its own (SpecLookup).
LookupIPs == {PublicIP, PrivateIP, LoopbackIP, SeedIP1, LinkLocalIP}
LookupRequests ==
    { [xff |-> x, ua |-> Absent, referer |-> Absent] :
        x \in {Absent, Some(PrivateIP), Some(LinkLocalIP), Some(MalformedIP)} }

\* The requests the tracking handlers are driven with: the headers read.
Requests ==
    { [xff |-> Some(PublicIP), ua |-> Some("<bot>"),
       referer |-> Some("https://google.com/search?q=x")] }

\* --------------------------------------------------------- enrichment
\* The fields of a click that enrichment may set.
EnrichmentFields ==
    {"country", "countryCode", "region", "city",
     "latitude", "longitude", "isp", "org"}

\* A click as the handlers construct it: no enrichment field is set.
NewClick(id, linkId, timestamp, ip, userAgent, referer) ==
    [id |-> id, linkId |-> linkId, timestamp |-> timestamp, ip |-> ip,
     userAgent |-> userAgent, referer |-> referer,
     country |-> Absent, countryCode |-> Absent, region |-> Absent,
     city |-> Absent, latitude |-> Absent, longitude |-> Absent,
     isp |-> Absent, org |-> Absent]

\* The enrichment block of a click.
Block(c) == [f \in EnrichmentFields |-> c[f]]
EmptyBlock == [f \in EnrichmentFields |-> Absent]

\* Bodies ip-api.com may answer with (status 'success').
PrimaryData ==
    { [country |-> Some("United States"), countryCode |-> Some("US"),
       region |-> Some("CA"), regionName |-> Some("California"),
       city |-> Some("Mountain View"), lat |-> Some(37), lon |-> Some(-122),
       isp |-> Some("Google LLC"), org |-> Some("Google Public DNS")] }

\* Bodies ipapi.co may answer with.
FallbackData ==
    { [country_name |-> Some("Australia"), country_code |-> Some("AU"),
       region |-> Some("Queensland"), city |-> Some("Brisbane"),
       latitude |-> Some(-27), longitude |-> Some(153),
       org |-> Some("Cloudflare")] }

\* Positions the browser geolocation API may supply in a POST body.
BodyLocations == { [latitude |-> 51, longitude |-> 0] }

\* a || b on optional values.
OrElse(a, b) == IF IsSet(a) THEN a ELSE b

\* The LocationData getLocationFromIP builds from an ip-api.com body
\* (fields are named as the click fields they are copied to).
PrimaryLocation(data) ==
    [country |-> data.country, countryCode |-> data.countryCode,
     region |-> OrElse(data.regionName, data.region), city |-> data.city,
     latitude |-> data.lat, longitude |-> data.lon,
     isp |-> data.isp, org |-> data.org]

\* The LocationData built from an ipapi.co body: isp is taken from the
\* body's org, and org is not set.
FallbackLocation(data) ==
    [country |-> data.country_name, countryCode |-> data.country_code,
     region |-> data.region, city |-> data.city,
     latitude |-> data.latitude, longitude |-> data.longitude,
     isp |-> data.org, org |-> Absent]

Locations ==
    {PrimaryLocation(d) : d \in PrimaryData}
        \cup {FallbackLocation(d) : d \in FallbackData}

\* LocationResult.
Success(location) == [success |-> TRUE, location |-> Some(location)]
Failure == [success |-> FALSE, location |-> Absent]

\* The callback's assignments without the one to org.
PatchClickWithoutOrg(c, location) ==
    [c EXCEPT !.country = location.country,
              !.countryCode = location.countryCode,
              !.region = location.region,
              !.city = location.city,
              !.latitude = location.latitude,
              !.longitude = location.longitude,
              !.isp = location.isp]

\* The eight assignments of the handlers' enrichment callback.
PatchClick(c, location) ==
    [c EXCEPT !.country = location.country,
              !.countryCode = location.countryCode,
              !.region = location.region,
              !.city = location.city,
              !.latitude = location.latitude,
              !.longitude = location.longitude,
              !.isp = location.isp,
              !.org = location.org]

\* click.latitude / click.longitude from body.location (track POST).
SetBodyLocation(c, loc) ==
    [c EXCEPT !.latitude = Some(loc.latitude), !.longitude = Some(loc.longitude)]

\* ------------------------------------------------------ JavaScript Map
\* A Map is the sequence of its entries in insertion order.
MapHas(m, k) == \E i \in 1..Len(m) : m[i].key = k
MapIndex(m, k) == CHOOSE i \in 1..Len(m) : m[i].key = k
MapGet(m, k) == m[MapIndex(m, k)].value
MapSet(m, k, v) ==
    IF MapHas(m, k)
    THEN [m EXCEPT ![MapIndex(m, k)] = [key |-> k, value |-> v]]
    ELSE Append(m, [key |-> k, value |-> v])
MapDelete(m, k) == SelectSeq(m, LAMBDA e : e.key # k)
MapKeys(m) == {m[i].key : i \in 1..Len(m)}
MapValues(m) == [i \in 1..Len(m) |-> m[i].value]

\* ------------------------------------------------------------ storage
\* The two stores are passed around as one record [links, clicks].

\* generateUniqueShortCode: the codes its loop can end with (it draws
\* again while the code is a key of linksStore).
generateUniqueShortCode(links) == {c \in GenCodes : ~MapHas(links, c)}

\* Index of the first link with this id in iteration order, 0 if none.
FindLinkIndex(links, id) ==
    IF \E i \in 1..Len(links) : links[i].value.id = id
    THEN CHOOSE i \in 1..Len(links) :
            /\ links[i].value.id = id
            /\ \A j \in 1..(i - 1) : links[j].value.id # id
    ELSE 0

\* createLink with the link stored under its id instead of its short code.
createLinkKeyedById(store, id, originalUrl, customCode, generated, createdAt) ==
    LET shortCode == IF IsSet(customCode) THEN customCode[1] ELSE generated
        link == [id |-> id, originalUrl |-> originalUrl,
                 shortCode |-> shortCode, createdAt |-> createdAt,
                 clickCount |-> 0, isActive |-> TRUE]
    IN  IF IsSet(customCode) /\ MapHas(store.links, customCode[1])
        THEN [threw |-> TRUE, links |-> store.links, clicks |-> store.clicks,
              link |-> link]
        ELSE [threw |-> FALSE,
              links |-> MapSet(store.links, id, link),
              clicks |-> MapSet(store.clicks, id, <<>>),
              link |-> link]

\* createLink without the check for an existing custom code.
createLinkUnchecked(store, id, originalUrl, customCode, generated, createdAt) ==
    LET shortCode == IF IsSet(customCode) THEN customCode[1] ELSE generated
        link == [id |-> id, originalUrl |-> originalUrl,
                 shortCode |-> shortCode, createdAt |-> createdAt,
                 clickCount |-> 0, isActive |-> TRUE]
    IN  [threw |-> FALSE,
         links |-> MapSet(store.links, shortCode, link),
         clicks |-> MapSet(store.clicks, id, <<>>),
         link |-> link]

\* createLink without clicksStore.set(id, []).
createLinkWithoutHistory(store, id, originalUrl, customCode, generated, createdAt) ==
    LET shortCode == IF IsSet(customCode) THEN customCode[1] ELSE generated
        link == [id |-> id, originalUrl |-> originalUrl,
                 shortCode |-> shortCode, createdAt |-> createdAt,
                 clickCount |-> 0, isActive |-> TRUE]
    IN  IF IsSet(customCode) /\ MapHas(store.links, customCode[1])
        THEN [threw |-> TRUE, links |-> store.links, clicks |-> store.clicks,
              link |-> link]
        ELSE [threw |-> FALSE,
              links |-> MapSet(store.links, shortCode, link),
              clicks |-> store.clicks,
              link |-> link]

\* LinkStorage.createLink; shortCode is customCode || generated.
\* threw = TRUE is 'Custom short code already exists'.
createLink(store, id, originalUrl, customCode, generated, createdAt) ==
    LET shortCode == IF IsSet(customCode) THEN customCode[1] ELSE generated
        link == [id |-> id, originalUrl |-> originalUrl,
                 shortCode |-> shortCode, createdAt |-> createdAt,
                 clickCount |-> 0, isActive |-> TRUE]
    IN  IF IsSet(customCode) /\ MapHas(store.links, customCode[1])
        THEN [threw |-> TRUE, links |-> store.links, clicks |-> store.clicks,
              link |-> link]
        ELSE [threw |-> FALSE,
              links |-> MapSet(store.links, shortCode, link),
              clicks |-> MapSet(store.clicks, id, <<>>),
              link |-> link]

getLinkByShortCode(links, shortCode) ==
    IF MapHas(links, shortCode) THEN Some(MapGet(links, shortCode)) ELSE Absent

getLinkById(links, id) ==
    IF FindLinkIndex(links, id) # 0
    THEN Some(links[FindLinkIndex(links, id)].value)
    ELSE Absent

\* updateLinkClickCount without the test of the link's id.
updateLinkClickCountOfAll(links, linkId) ==
    [i \in 1..Len(links) |->
        [key |-> links[i].key,
         value |-> [links[i].value EXCEPT !.clickCount = @ + 1]]]

\* updateLinkClickCount that counts the click on the newest link of the
\* registry when no link has the id.
updateLinkClickCountOrNewest(links, linkId) ==
    LET i == IF FindLinkIndex(links, linkId) = 0 THEN Len(links)
             ELSE FindLinkIndex(links, linkId)
    IN  IF i = 0 THEN links
        ELSE MapSet(links, links[i].key,
                    [links[i].value EXCEPT !.clickCount = @ + 1])

\* LinkStorage.updateLinkClickCount: the first link with the id, if any.
updateLinkClickCount(links, linkId) ==
    LET i == FindLinkIndex(links, linkId)
    IN  IF i = 0 THEN links
        ELSE MapSet(links, links[i].key,
                    [links[i].value EXCEPT !.clickCount = @ + 1])

\* deleteLink without clicksStore.delete(id).
deleteLinkKeepingClicks(store, id) ==
    LET i == FindLinkIndex(store.links, id)
    IN  IF i = 0
        THEN [found |-> FALSE, links |-> store.links, clicks |-> store.clicks]
        ELSE [found |-> TRUE,
              links |-> MapDelete(store.links, store.links[i].key),
              clicks |-> store.clicks]

\* deleteLink that clears both stores when it finds the link.
deleteLinkClearingStores(store, id) ==
    LET i == FindLinkIndex(store.links, id)
    IN  IF i = 0
        THEN [found |-> FALSE, links |-> store.links, clicks |-> store.clicks]
        ELSE [found |-> TRUE, links |-> <<>>, clicks |-> <<>>]

\* LinkStorage.deleteLink.
deleteLink(store, id) ==
    LET i == FindLinkIndex(store.links, id)
    IN  IF i = 0
        THEN [found |-> FALSE, links |-> store.links, clicks |-> store.clicks]
        ELSE [found |-> TRUE,
              links |-> MapDelete(store.links, store.links[i].key),
              clicks |-> MapDelete(store.clicks, id)]

\* toggleLinkStatus that switches the link off whatever its status.
toggleLinkStatusDeactivating(links, id) ==
    LET i == FindLinkIndex(links, id)
    IN  IF i = 0 THEN [found |-> FALSE, links |-> links]
        ELSE [found |-> TRUE,
              links |-> MapSet(links, links[i].key,
                               [links[i].value EXCEPT !.isActive = FALSE])]

\* toggleLinkStatus that counts the toggle as a click.
toggleLinkStatusCounting(links, id) ==
    LET i == FindLinkIndex(links, id)
    IN  IF i = 0 THEN [found |-> FALSE, links |-> links]
        ELSE [found |-> TRUE,
              links |-> MapSet(links, links[i].key,
                               [links[i].value EXCEPT !.isActive = ~@,
                                                      !.clickCount = @ + 1])]

\* LinkStorage.toggleLinkStatus.
toggleLinkStatus(links, id) ==
    LET i == FindLinkIndex(links, id)
    IN  IF i = 0 THEN [found |-> FALSE, links |-> links]
        ELSE [found |-> TRUE,
              links |-> MapSet(links, links[i].key,
                               [links[i].value EXCEPT !.isActive = ~@])]

\* ClickStorage.getClicksForLink: clicksStore.get(linkId) || [].
getClicksForLink(clicks, linkId) ==
    IF MapHas(clicks, linkId) THEN MapGet(clicks, linkId) ELSE <<>>

\* addClick on a stale, empty read of the link's history: the clicks
\* appended before are lost.
addClickLosingHistory(store, click) ==
    [links |-> updateLinkClickCount(store.links, click.linkId),
     clicks |-> MapSet(store.clicks, click.linkId, <<click>>)]

\* addClick that stores the click without its referer.
addClickWithoutReferer(store, click) ==
    LET linkClicks == getClicksForLink(store.clicks, click.linkId)
    IN  [links |-> updateLinkClickCount(store.links, click.linkId),
         clicks |-> MapSet(store.clicks, click.linkId,
                           Append(linkClicks, [click EXCEPT !.referer = Absent]))]

\* ClickStorage.addClick.
addClick(store, click) ==
    LET linkClicks == getClicksForLink(store.clicks, click.linkId)
    IN  [links |-> updateLinkClickCount(store.links, click.linkId),
         clicks |-> MapSet(store.clicks, click.linkId, Append(linkClicks, click))]

\* ClickStorage.getAllClicks, before its sort by timestamp: the clicks of
\* every history in iteration order.
RECURSIVE FlattenClicks(_)
FlattenClicks(clicks) ==
    IF clicks = <<>> THEN <<>>
    ELSE Head(clicks).value \o FlattenClicks(Tail(clicks))

\* Array.prototype.sort (stable) with the comparator b.k - a.k on a
\* sequence of [k, v]: descending by k, equal keys keep their order.
RECURSIVE InsertDesc(_, _)
InsertDesc(sorted, x) ==
    IF sorted = <<>> THEN <<x>>
    ELSE IF Head(sorted).k >= x.k
         THEN <<Head(sorted)>> \o InsertDesc(Tail(sorted), x)
         ELSE <<x>> \o sorted

RECURSIVE SortDesc(_)
SortDesc(s) ==
    IF s = <<>> THEN <<>>
    ELSE InsertDesc(SortDesc(SubSeq(s, 1, Len(s) - 1)), s[Len(s)])

\* getAllLinks leaving out the links that are not active.
getAllLinksActiveOnly(links) ==
    LET active == SelectSeq(links, LAMBDA e : e.value.isActive)
        keyed == [i \in 1..Len(active) |->
                    [k |-> active[i].value.createdAt, v |-> active[i].value]]
        sorted == SortDesc(keyed)
    IN  [i \in 1..Len(sorted) |-> sorted[i].v]

\* getAllLinks without the sort: the registry's insertion order.
getAllLinksUnsorted(links) == MapValues(links)

\* LinkStorage.getAllLinks: newest first.
getAllLinks(links) ==
    LET keyed == [i \in 1..Len(links) |->
                    [k |-> links[i].value.createdAt, v |-> links[i].value]]
        sorted == SortDesc(keyed)
    IN  [i \in 1..Len(sorted) |-> sorted[i].v]

\* ClickStorage.getAllClicks: newest first.
getAllClicks(clicks) ==
    LET all == FlattenClicks(clicks)
        keyed == [i \in 1..Len(all) |-> [k |-> all[i].timestamp, v |-> all[i]]]
        sorted == SortDesc(keyed)
    IN  [i \in 1..Len(sorted) |-> sorted[i].v]

\* getUniqueClicksForLink telling clicks apart by their id, not their ip.
getUniqueClicksForLinkById(clicks, linkId) ==
    LET cs == getClicksForLink(clicks, linkId)
    IN  Cardinality({cs[i].id : i \in 1..Len(cs)})

\* ClickStorage.getUniqueClicksForLink.
getUniqueClicksForLink(clicks, linkId) ==
    LET cs == getClicksForLink(clicks, linkId)
    IN  Cardinality({cs[i].ip : i \in 1..Len(cs)})

\* links.reduce((top, current) =>
\*   (!top || current.clickCount > top.clickCount) ? current : top, undefined)
RECURSIVE ReduceTop(_, _)
ReduceTop(top, rest) ==
    IF rest = <<>> THEN top
    ELSE ReduceTop(IF ~IsSet(top) \/ Head(rest).clickCount > top[1].clickCount
                   THEN Some(Head(rest)) ELSE top,
                   Tail(rest))

\* StatsService.getDashboardStats.
getDashboardStats(store) ==
    LET links == getAllLinks(store.links)
        allClicks == getAllClicks(store.clicks)
    IN  [totalLinks |-> Len(links),
         totalClicks |-> Len(allClicks),
         activeLinks |-> Len(SelectSeq(links, LAMBDA l : l.isActive)),
         topPerformingLink |-> ReduceTop(Absent, links)]

\* GET /api/links/[id]: 404 when no link has the id, else the link with
\* its clicks (GetForLink) and the counts computed from them.
getAnalytics(store, id) ==
    LET link == getLinkById(store.links, id)
        clicks == getClicksForLink(store.clicks, id)
    IN  IF ~IsSet(link)
        THEN [found |-> FALSE, link |-> Absent, clicks |-> <<>>,
              totalClicks |-> 0, uniqueClicks |-> 0]
        ELSE [found |-> TRUE, link |-> link, clicks |-> clicks,
              totalClicks |-> Len(clicks),
              uniqueClicks |-> getUniqueClicksForLink(store.clicks, id)]

\* ---------------------------------------------------------- analytics
\* JavaScript truthiness of an optional string: undefined and '' are falsy.
Truthy(v) == IsSet(v) /\ v[1] # ""

\* click.country || 'Unknown'
CountryLabel(click) ==
    IF Truthy(click.country) THEN click.country[1] ELSE "Unknown"

\* click.city ? `${click.city}, ${click.country || 'Unknown'}` : 'Unknown'
CityLabel(click) ==
    IF Truthy(click.city)
    THEN click.city[1] \o ", " \o CountryLabel(click)
    ELSE "Unknown"

\* The city label without the country.
CityOnlyLabel(click) ==
    IF Truthy(click.city) THEN click.city[1] ELSE "Unknown"

\* CountLabels on a Map that starts with an 'Unknown' entry of count 0.
RECURSIVE CountLabelsFromUnknown(_)
CountLabelsFromUnknown(labels) ==
    IF labels = <<>> THEN <<[key |-> "Unknown", value |-> 0]>>
    ELSE LET m == CountLabelsFromUnknown(SubSeq(labels, 1, Len(labels) - 1))
             l == labels[Len(labels)]
         IN  MapSet(m, l, (IF MapHas(m, l) THEN MapGet(m, l) ELSE 0) + 1)

\* clicks.forEach: count.set(label, (count.get(label) || 0) + 1), on the
\* labels of the clicks in order; the Map keeps first-insertion order.
RECURSIVE CountLabels(_)
CountLabels(labels) ==
    IF labels = <<>> THEN <<>>
    ELSE LET m == CountLabels(SubSeq(labels, 1, Len(labels) - 1))
             l == labels[Len(labels)]
         IN  MapSet(m, l, (IF MapHas(m, l) THEN MapGet(m, l) ELSE 0) + 1)

\* Array.from(count.entries()).map(([name, count]) => ({ name, count }))
EntriesOf(m) ==
    [i \in 1..Len(m) |-> [name |-> m[i].key, count |-> m[i].value]]

\* .sort((a, b) => b.count - a.count)
SortByCount(entries) ==
    LET keyed == [i \in 1..Len(entries) |->
                    [k |-> entries[i].count, v |-> entries[i]]]
        sorted == SortDesc(keyed)
    IN  [i \in 1..Len(sorted) |-> sorted[i].v]

\* groupClicksByCountry without the sort.
groupClicksByCountryUnsorted(clicks) ==
    EntriesOf(CountLabels([i \in 1..Len(clicks) |-> CountryLabel(clicks[i])]))

\* groupClicksByCountry (location.ts).
groupClicksByCountry(clicks) ==
    SortByCount(EntriesOf(
        CountLabels([i \in 1..Len(clicks) |-> CountryLabel(clicks[i])])))

\* groupClicksByCity labelling a click by its city alone.
groupClicksByCityOnly(clicks) ==
    SortByCount(EntriesOf(
        CountLabels([i \in 1..Len(clicks) |-> CityOnlyLabel(clicks[i])])))

\* groupClicksByCity (location.ts).
groupClicksByCity(clicks) ==
    SortByCount(EntriesOf(
        CountLabels([i \in 1..Len(clicks) |-> CityLabel(clicks[i])])))

\* .slice(0, n)
Slice(s, n) == SubSeq(s, 1, IF Len(s) < n THEN Len(s) ELSE n)

\* extractDomain: the hostname of the URL, the string itself when new URL
\* throws.
extractDomain(url) ==
    LET parsed == ParseURL(url)
    IN  IF parsed.ok THEN parsed.hostname ELSE url

\* const referer = click.referer || 'Direct';
\* const domain = referer === 'Direct' ? 'Direct' : extractDomain(referer)
RefererLabel(click) ==
    LET referer == IF Truthy(click.referer) THEN click.referer[1] ELSE "Direct"
    IN  IF referer = "Direct" THEN "Direct" ELSE extractDomain(referer)

\* generateTopReferers cutting the entries to ten before sorting them.
generateTopReferersFirstTen(clicks) ==
    SortByCount(Slice(EntriesOf(
        CountLabels([i \in 1..Len(clicks) |-> RefererLabel(clicks[i])])), 10))

\* generateTopReferers (links/[id]/route.ts).
generateTopReferers(clicks) ==
    Slice(SortByCount(EntriesOf(
        CountLabels([i \in 1..Len(clicks) |-> RefererLabel(clicks[i])]))), 10)

\* One tick of the clock is thirty minutes.
TicksPerDay == 48
\* The tick at which the first local midnight falls: tick 0 is 23:00.
Midnight == 2
\* The length of the window of generateClicksByDate.
WindowDays == 30

\* format(startOfDay(d), 'yyyy-MM-dd'): the calendar day of a time, as
\* the number of the day (day 0 begins at Midnight).
DayOf(t) == (t - Midnight) \div TicksPerDay

\* Array.from({ length: 30 }, (_, i) => startOfDay(subDays(new Date(), i)))
\* .reverse(): callback i (0-based) makes its own reading of the clock,
\* reads[i + 1], and its entry ends at position 30 - i.
last30Days(reads) ==
    [j \in 1..WindowDays |->
        [date |-> DayOf(reads[WindowDays - j + 1]) - (WindowDays - j),
         clicks |-> 0]]

\* clicks.forEach: the first entry with the click's date, if any, is
\* incremented.
RECURSIVE CountDays(_, _)
CountDays(days, clicks) ==
    IF clicks = <<>> THEN days
    ELSE LET d == DayOf(Head(clicks).timestamp)
             hit == {j \in 1..Len(days) : days[j].date = d}
             first == CHOOSE j \in hit : \A h \in hit : j <= h
         IN  CountDays(IF hit = {} THEN days
                       ELSE [days EXCEPT ![first].clicks = @ + 1],
                       Tail(clicks))

\* generateClicksByDate (links/[id]/route.ts), given the values new Date()
\* takes in the thirty callbacks.
generateClicksByDate(clicks, reads) == CountDays(last30Days(reads), clicks)

\* Ages of the two sample clicks (one hour and thirty minutes), in ticks.
SeedAge1 == 2
SeedAge2 == 1

\* The sample clicks of initializeSampleData.
SampleClicks(linkId, t) ==
    << [NewClick("click_1", linkId, t - SeedAge1, SeedIP1, "Mozilla/5.0 (Windows)",
                 Some("https://google.com"))
          EXCEPT !.country = Some("United States"), !.countryCode = Some("US"),
                 !.region = Some("California"), !.city = Some("San Francisco"),
                 !.latitude = Some(37), !.longitude = Some(-122)],
       [NewClick("click_2", linkId, t - SeedAge2, SeedIP2, "Mozilla/5.0 (Macintosh)",
                 Absent)
          EXCEPT !.country = Some("Canada"), !.countryCode = Some("CA"),
                 !.region = Some("Ontario"), !.city = Some("Toronto"),
                 !.latitude = Some(43), !.longitude = Some(-79)] >>

\* initializeSampleData that puts the sample clicks into the click store
\* itself instead of calling addClick for each.
initializeSampleDataUncounted(store, id, generated, t) ==
    IF Len(store.links) = 0
    THEN LET made == createLink(store, id, "https://example.com", Absent,
                                generated, t)
         IN  [links |-> made.links,
              clicks |-> MapSet(made.clicks, id, SampleClicks(id, t))]
    ELSE store

\* initializeSampleData: only when the registry is empty, one sample link
\* with a generated code and its two sample clicks.
initializeSampleData(store, id, generated, t) ==
    IF Len(store.links) = 0
    THEN LET made == createLink(store, id, "https://example.com", Absent,
                                generated, t)
             s0 == [links |-> made.links, clicks |-> made.clicks]
             s1 == addClick(s0, SampleClicks(id, t)[1])
         IN  addClick(s1, SampleClicks(id, t)[2])
    ELSE store

\* ---------------------------------------------------------------- state
VARIABLES
    linksStore,     \* Map shortCode -> Link
    clicksStore,    \* Map link id -> Click[]
    isInitialized,  \* the links route's flag: sample data was loaded
    now,            \* Date.now()
    nextLinkId,     \* index of the next fresh link id
    nextClickId,    \* index of the next fresh click id
    tasks,          \* click id -> the getLocationFromIP call made for the
                    \* click and the handler continuation waiting for it
    response        \* the response most recently sent by a handler

vars == <<linksStore, clicksStore, isInitialized, now, nextLinkId,
          nextClickId, tasks, response>>

Store == [links |-> linksStore, clicks |-> clicksStore]

LinkIds(max) == {LinkIdNames[i] : i \in 1..max}

Response(op, status, url, linkId) ==
    [op |-> op, status |-> status, url |-> url, linkId |-> linkId]

Init ==
    /\ linksStore = <<>>
    /\ clicksStore = <<>>
    /\ isInitialized = FALSE
    /\ now = 0
    /\ nextLinkId = 1
    /\ nextClickId = 1
    /\ tasks = <<>>
    /\ response = Response("none", "none", "", "")

\* The clock advances between handler segments.
Tick ==
    /\ now < MaxTime
    /\ now' = now + 1
    /\ UNCHANGED <<linksStore, clicksStore, isInitialized, nextLinkId,
                   nextClickId, tasks, response>>

\* ------------------------------------------------- /api/links (part_002)
\* ensureInitialized: the store after it, given the id and the generated
\* code the sample link would get.
ensureInitialized(store, initialized, id, generated, t) ==
    IF ~initialized THEN initializeSampleData(store, id, generated, t) ELSE store

\* Whether ensureInitialized creates the sample link in this state.
Seeds == ~isInitialized /\ Len(linksStore) = 0

\* GET /api/links.
ListLinks ==
    /\ \E seedCode \in IF Seeds THEN generateUniqueShortCode(linksStore) ELSE {""} :
         LET seeded == ensureInitialized(Store, isInitialized,
                                         LinkIdNames[nextLinkId], seedCode, now)
         IN  /\ linksStore' = seeded.links
             /\ clicksStore' = seeded.clicks
             /\ nextLinkId' = IF Seeds THEN nextLinkId + 1 ELSE nextLinkId
    /\ isInitialized' = TRUE
    /\ response' = Response("list", "ok", "", "")
    /\ UNCHANGED <<now, nextClickId, tasks>>

\* POST /api/links with a valid body: 409 when createLink throws
\* 'Custom short code already exists'. At most max link ids are issued.
CreateLink(max, originalUrl, customCode) ==
    /\ \E seedCode \in IF Seeds THEN generateUniqueShortCode(linksStore) ELSE {""} :
         LET seeded == ensureInitialized(Store, isInitialized,
                                         LinkIdNames[nextLinkId], seedCode, now)
             idx == IF Seeds THEN nextLinkId + 1 ELSE nextLinkId
         IN  \E generated \in IF IsSet(customCode) THEN {""}
                              ELSE generateUniqueShortCode(seeded.links) :
               LET made == createLink(seeded, LinkIdNames[idx], originalUrl,
                                      customCode, generated, now)
               IN  /\ made.threw \/ idx <= max
                   /\ linksStore' = made.links
                   /\ clicksStore' = made.clicks
                   /\ nextLinkId' = IF made.threw THEN idx ELSE idx + 1
                   /\ response' =
                        IF made.threw
                        THEN Response("create", "DuplicateCode", "", "")
                        ELSE Response("create", "ok", made.link.shortCode,
                                      made.link.id)
    /\ isInitialized' = TRUE
    /\ UNCHANGED <<now, nextClickId, tasks>>

\* ------------------------------------------- /api/links/[id] (DELETE)
DeleteLink(id) ==
    LET r == deleteLink(Store, id)
    IN  /\ linksStore' = r.links
        /\ clicksStore' = r.clicks
        /\ response' = Response("delete", IF r.found THEN "ok" ELSE "NotFound",
                                "", id)
        /\ UNCHANGED <<isInitialized, now, nextLinkId, nextClickId, tasks>>

\* LinkStorage.toggleLinkStatus as an operation of the registry.
ToggleLink(id) ==
    LET r == toggleLinkStatus(linksStore, id)
    IN  /\ linksStore' = r.links
        /\ response' = Response("toggle", IF r.found THEN "ok" ELSE "NotFound",
                                "", id)
        /\ UNCHANGED <<clicksStore, isInitialized, now, nextLinkId,
                       nextClickId, tasks>>

\* ------------------------------------------------- getLocationFromIP
\* A call of getLocationFromIP with the continuation of the handler that
\* made it: the link (id, originalUrl) and the click id the continuation
\* captured; for the POST handler, which has not stored its click yet,
\* the click itself. primary and secondary record how each request ended.
NewTask(kind, link, click) ==
    [kind |-> kind, linkId |-> link.id, originalUrl |-> link.originalUrl,
     ip |-> click.ip,
     click |-> IF kind = "post" THEN Some(click) ELSE Absent,
     stage |-> "primary",
     result |-> Failure,
     primary |-> "pending",
     secondary |-> "none",
     primaryCalls |-> 1,
     secondaryCalls |-> 0,
     patches |-> 0,
     outcome |-> "pending"]

\* The call for a private address returns a failure and sends no request.
privateTask(kind, link, click) ==
    [NewTask(kind, link, click) EXCEPT
        !.primary = "skipped", !.primaryCalls = 0]

\* ip-api.com answers 200 with status 'success'.
primaryAnswers(t, data) ==
    [t EXCEPT !.primary = "ok", !.result = Success(PrimaryLocation(data))]

\* status 'fail' handled like a thrown error: the fallback request is sent.
primaryReportsFailFallsBack(t) ==
    [t EXCEPT !.primary = "fail", !.result = Failure,
              !.secondary = "pending", !.secondaryCalls = @ + 1]

\* ip-api.com answers 200 with status 'fail': the failure is returned.
primaryReportsFail(t) ==
    [t EXCEPT !.primary = "fail", !.result = Failure]

\* A catch block that neither sends the fallback request nor returns.
primaryThrowsAndHangs(t) ==
    [t EXCEPT !.stage = "hung", !.primary = "threw"]

\* The primary request ends in the catch block (!response.ok, or a thrown
\* error: AbortSignal.timeout, network, body not JSON), which sends the
\* fallback request.
primaryThrows(t) ==
    [t EXCEPT !.stage = "secondary", !.primary = "threw",
              !.secondary = "pending", !.secondaryCalls = @ + 1]

\* ipapi.co answers ok.
fallbackAnswers(t, data) ==
    [t EXCEPT !.secondary = "ok", !.result = Success(FallbackLocation(data))]

\* A failed fallback that asks the primary resolver once more.
fallbackFailsRetries(t) ==
    [t EXCEPT !.secondary = "failed", !.result = Failure,
              !.primaryCalls = @ + 1]

\* ipapi.co answers not ok, or the request throws: failure.
fallbackFails(t) ==
    [t EXCEPT !.secondary = "failed", !.result = Failure]

\* ------------------------------------------------------- continuations
HasStoredClick(clicks, linkId, clickId) ==
    LET linkClicks == getClicksForLink(clicks, linkId)
    IN  \E i \in 1..Len(linkClicks) : linkClicks[i].id = clickId

\* A callback that takes the click out of the history and pushes the
\* patched click at its end.
patchStoredClickMovingLast(clicks, linkId, clickId, location) ==
    LET linkClicks == getClicksForLink(clicks, linkId)
        first == CHOOSE i \in 1..Len(linkClicks) :
                    /\ linkClicks[i].id = clickId
                    /\ \A j \in 1..(i - 1) : linkClicks[j].id # clickId
    IN  IF HasStoredClick(clicks, linkId, clickId)
        THEN MapSet(clicks, linkId,
                    Append(SelectSeq(linkClicks, LAMBDA c : c.id # clickId),
                           PatchClick(linkClicks[first], location)))
        ELSE clicks

\* The redirect handler's callback: find the click by id in the history
\* of link.id and assign the eight fields to it, if it is there.
patchStoredClick(clicks, linkId, clickId, location) ==
    LET linkClicks == getClicksForLink(clicks, linkId)
        first == CHOOSE i \in 1..Len(linkClicks) :
                    /\ linkClicks[i].id = clickId
                    /\ \A j \in 1..(i - 1) : linkClicks[j].id # clickId
    IN  IF HasStoredClick(clicks, linkId, clickId)
        THEN MapSet(clicks, linkId,
                    [linkClicks EXCEPT ![first] = PatchClick(@, location)])
        ELSE clicks

\* A callback that assigns to a copy of the click: the store is unchanged.
patchDetachedClick(clicks, clickId, location) == clicks

\* A callback that assigns the location to every click of the history
\* that holds the captured click.
patchClickObjectAndNeighbours(clicks, clickId, location) ==
    [e \in 1..Len(clicks) |->
        [key |-> clicks[e].key,
         value |-> [i \in 1..Len(clicks[e].value) |->
                      IF \E j \in 1..Len(clicks[e].value) :
                            clicks[e].value[j].id = clickId
                      THEN PatchClick(clicks[e].value[i], location)
                      ELSE clicks[e].value[i]]]]

\* The track handler's callback assigns to the click object it captured:
\* the store shows the assignment wherever it holds that object (an object
\* is identified by its click id).
patchClickObject(clicks, clickId, location) ==
    [e \in 1..Len(clicks) |->
        [key |-> clicks[e].key,
         value |-> [i \in 1..Len(clicks[e].value) |->
                      IF clicks[e].value[i].id = clickId
                      THEN PatchClick(clicks[e].value[i], location)
                      ELSE clicks[e].value[i]]]]

Succeeded(t) == t.result.success /\ IsSet(t.result.location)

Finish(t, outcome, patched) ==
    [t EXCEPT !.stage = "done", !.outcome = outcome, !.click = Absent,
              !.patches = IF patched THEN @ + 1 ELSE @]

\* GET /t/[shortCode], the .then callback, on the returned result t.result.
redirectCallback(store, cid, t) ==
    LET found == HasStoredClick(store.clicks, t.linkId, cid)
    IN  IF Succeeded(t)
        THEN [links |-> store.links,
              clicks |-> patchStoredClick(store.clicks, t.linkId, cid,
                                          t.result.location[1]),
              task |-> Finish(t, IF found THEN "patched" ELSE "dropped", found)]
        ELSE [links |-> store.links, clicks |-> store.clicks,
              task |-> Finish(t, "failed", FALSE)]

\* A track callback whose assignments never reach the store.
trackCallbackDetached(store, cid, t) ==
    [links |-> store.links, clicks |-> store.clicks,
     task |-> Finish(t, IF Succeeded(t) THEN "patched" ELSE "failed",
                     Succeeded(t))]

\* GET /api/track/[shortCode], the .then callback.
trackCallback(store, cid, t) ==
    IF Succeeded(t)
    THEN [links |-> store.links,
          clicks |-> patchClickObject(store.clicks, cid, t.result.location[1]),
          task |-> Finish(t, "patched", TRUE)]
    ELSE [links |-> store.links, clicks |-> store.clicks,
          task |-> Finish(t, "failed", FALSE)]

\* A POST continuation that stores the click only when it has a location.
postContinueDroppingUnlocated(store, cid, t) ==
    LET after == addClick(store, PatchClick(t.click[1], t.result.location[1]))
    IN  IF Succeeded(t)
        THEN [links |-> after.links, clicks |-> after.clicks,
              task |-> Finish(t, "patched", TRUE)]
        ELSE [links |-> store.links, clicks |-> store.clicks,
              task |-> Finish(t, "failed", FALSE)]

\* POST /api/track/[shortCode] after its await: assign the location to the
\* click if there is one, then addClick.
postContinue(store, cid, t) ==
    LET click == IF Succeeded(t) THEN PatchClick(t.click[1], t.result.location[1])
                 ELSE t.click[1]
        after == addClick(store, click)
    IN  [links |-> after.links, clicks |-> after.clicks,
         task |-> Finish(t, IF Succeeded(t) THEN "patched" ELSE "failed",
                         Succeeded(t))]

\* The continuation that a returned getLocationFromIP resumes; a call
\* made outside the handlers ("direct") has none that touches the stores.
continuation(store, cid, t) ==
    IF t.kind = "redirect" THEN redirectCallback(store, cid, t)
    ELSE IF t.kind = "track" THEN trackCallback(store, cid, t)
    ELSE IF t.kind = "post" THEN postContinue(store, cid, t)
    ELSE [links |-> store.links, clicks |-> store.clicks,
          task |-> Finish(t, IF Succeeded(t) THEN "located" ELSE "failed",
                          FALSE)]

\* ------------------------------------------------- resolver answers
Pending(stage) == {cid \in DOMAIN tasks : tasks[cid].stage = stage}

\* getLocationFromIP returns t.result and the handler's continuation runs;
\* only the POST handler then answers its request.
Returns(cid, t) ==
    LET r == continuation(Store, cid, t)
    IN  /\ linksStore' = r.links
        /\ clicksStore' = r.clicks
        /\ tasks' = [tasks EXCEPT ![cid] = r.task]
        /\ response' = IF t.kind = "post"
                       THEN Response("post", "ok", t.originalUrl, t.linkId)
                       ELSE response
        /\ UNCHANGED <<isInitialized, now, nextLinkId, nextClickId>>

PrimaryAnswers(cid, data) ==
    /\ cid \in Pending("primary")
    /\ Returns(cid, primaryAnswers(tasks[cid], data))

PrimaryReportsFail(cid) ==
    /\ cid \in Pending("primary")
    /\ Returns(cid, primaryReportsFail(tasks[cid]))

PrimaryThrows(cid) ==
    /\ cid \in Pending("primary")
    /\ tasks' = [tasks EXCEPT ![cid] = primaryThrows(tasks[cid])]
    /\ UNCHANGED <<linksStore, clicksStore, isInitialized, now, nextLinkId,
                   nextClickId, response>>

FallbackAnswers(cid, data) ==
    /\ cid \in Pending("secondary")
    /\ Returns(cid, fallbackAnswers(tasks[cid], data))

FallbackFails(cid) ==
    /\ cid \in Pending("secondary")
    /\ Returns(cid, fallbackFails(tasks[cid]))

\* getLocationFromIP(ip) called on its own; the call is numbered like a
\* click. For a private address it returns the failure in the same task.
getLocationFromIP(id, ip) ==
    LET caller == [id |-> "", originalUrl |-> ""]
        click == NewClick(id, "", 0, ip, "", Absent)
    IN  IF isPrivateIP(ip)
        THEN continuation([links |-> <<>>, clicks |-> <<>>], id,
                          privateTask("direct", caller, click)).task
        ELSE NewTask("direct", caller, click)

Locate(ip) ==
    /\ nextClickId <= MaxClicks
    /\ tasks' = tasks @@ (ClickIdNames[nextClickId] :>
                            getLocationFromIP(ClickIdNames[nextClickId], ip))
    /\ nextClickId' = nextClickId + 1
    /\ response' = Response("locate", "ok", "", "")
    /\ UNCHANGED <<linksStore, clicksStore, isInitialized, now, nextLinkId>>

\* --------------------------------------------------- tracking handlers
\* What the three tracking handlers do up to the click record: look the
\* link up, check isActive, read the headers, build the click.
Lookup(code) == getLinkByShortCode(linksStore, code)

BuildClick(link, req) ==
    NewClick(ClickIdNames[nextClickId], link.id, now, getClientIP(req),
             sanitizeUserAgent(req.ua), sanitizeReferer(req.referer))

Refuse(op, code) ==
    /\ response' = Response(op, IF ~IsSet(Lookup(code)) THEN "NotFound"
                                ELSE "Inactive", "", "")
    /\ UNCHANGED <<linksStore, clicksStore, isInitialized, now, nextLinkId,
                   nextClickId, tasks>>

\* The handlers' checks without the one of link.isActive.
AcceptsInactive(code) == IsSet(Lookup(code))

Accepts(code) == IsSet(Lookup(code)) /\ Lookup(code)[1].isActive

\* The stores and the task after a GET handler's accepted request: the
\* click is stored, the lookup is started, and for a private address the
\* callback has already run on the failure.
trackGet(store, kind, link, click) ==
    LET after == addClick(store, click)
    IN  IF isPrivateIP(click.ip)
        THEN continuation(after, click.id, privateTask(kind, link, click))
        ELSE [links |-> after.links, clicks |-> after.clicks,
              task |-> NewTask(kind, link, click)]

\* A POST handler that stores the click with the client's position and
\* starts a lookup for it all the same.
trackPostAlwaysLooksUp(store, link, click, bodyLocation) ==
    IF IsSet(bodyLocation)
    THEN LET after == addClick(store, SetBodyLocation(click, bodyLocation[1]))
         IN  [links |-> after.links, clicks |-> after.clicks,
              task |-> Some(NewTask("track", link, click))]
    ELSE [links |-> store.links, clicks |-> store.clicks,
          task |-> Some(NewTask("post", link, click))]

\* The same for the POST handler: with body.location the click gets the
\* client's position and is stored without a lookup (no task); without it
\* the handler awaits the lookup before it stores the click.
trackPost(store, link, click, bodyLocation) ==
    IF IsSet(bodyLocation)
    THEN LET after == addClick(store, SetBodyLocation(click, bodyLocation[1]))
         IN  [links |-> after.links, clicks |-> after.clicks, task |-> Absent]
    ELSE IF isPrivateIP(click.ip)
    THEN LET r == continuation(store, click.id, privateTask("post", link, click))
         IN  [links |-> r.links, clicks |-> r.clicks, task |-> Some(r.task)]
    ELSE [links |-> store.links, clicks |-> store.clicks,
          task |-> Some(NewTask("post", link, click))]

\* GET /t/[shortCode]: addClick, then getLocationFromIP(ip).then(...).
Redirect(code, req) ==
    IF ~Accepts(code) THEN Refuse("redirect", code)
    ELSE LET link == Lookup(code)[1]
             click == BuildClick(link, req)
             r == trackGet(Store, "redirect", link, click)
         IN  /\ nextClickId <= MaxClicks
             /\ linksStore' = r.links
             /\ clicksStore' = r.clicks
             /\ tasks' = tasks @@ (click.id :> r.task)
             /\ nextClickId' = nextClickId + 1
             /\ response' = Response("redirect", "ok", link.originalUrl, link.id)
             /\ UNCHANGED <<isInitialized, now, nextLinkId>>

\* GET /api/track/[shortCode]: getLocationFromIP(ip).then(...), then
\* addClick, in one task.
TrackGet(code, req) ==
    IF ~Accepts(code) THEN Refuse("track", code)
    ELSE LET link == Lookup(code)[1]
             click == BuildClick(link, req)
             r == trackGet(Store, "track", link, click)
         IN  /\ nextClickId <= MaxClicks
             /\ linksStore' = r.links
             /\ clicksStore' = r.clicks
             /\ tasks' = tasks @@ (click.id :> r.task)
             /\ nextClickId' = nextClickId + 1
             /\ response' = Response("track", "ok", link.originalUrl, link.id)
             /\ UNCHANGED <<isInitialized, now, nextLinkId>>

\* POST /api/track/[shortCode]: the answer is sent once the click is
\* stored.
TrackPost(code, req, bodyLocation) ==
    IF ~Accepts(code) THEN Refuse("post", code)
    ELSE LET link == Lookup(code)[1]
             click == BuildClick(link, req)
             r == trackPost(Store, link, click, bodyLocation)
             stored == ~IsSet(r.task) \/ r.task[1].stage = "done"
         IN  /\ nextClickId <= MaxClicks
             /\ linksStore' = r.links
             /\ clicksStore' = r.clicks
             /\ tasks' = IF IsSet(r.task) THEN tasks @@ (click.id :> r.task[1])
                         ELSE tasks
             /\ nextClickId' = nextClickId + 1
             /\ response' = IF stored
                            THEN Response("post", "ok", link.originalUrl, link.id)
                            ELSE response
             /\ UNCHANGED <<isInitialized, now, nextLinkId>>

\* ----------------------------------------------------------------- Next
BodyInputs == {Absent} \cup {Some(l) : l \in BodyLocations}
CustomInputs == {Absent} \cup {Some(c) : c \in CustomCodes}
RegistryCustomInputs == {Absent} \cup {Some(c) : c \in RegistryCustomCodes}

Next ==
    \/ ListLinks
    \/ \E url \in Urls, custom \in CustomInputs :
          CreateLink(MaxLinks, url, custom)
    \/ \E id \in LinkIds(MaxLinks) : DeleteLink(id)
    \/ \E id \in LinkIds(MaxLinks) : ToggleLink(id)
    \/ \E code \in Codes, req \in Requests : Redirect(code, req)
    \/ \E code \in Codes, req \in Requests : TrackGet(code, req)
    \/ \E code \in Codes, req \in Requests, body \in BodyInputs :
          TrackPost(code, req, body)
    \/ \E cid \in DOMAIN tasks, data \in PrimaryData : PrimaryAnswers(cid, data)
    \/ \E cid \in DOMAIN tasks : PrimaryReportsFail(cid)
    \/ \E cid \in DOMAIN tasks : PrimaryThrows(cid)
    \/ \E cid \in DOMAIN tasks, data \in FallbackData : FallbackAnswers(cid, data)
    \/ \E cid \in DOMAIN tasks : FallbackFails(cid)

Spec == Init /\ [][Next]_vars

\* The ids a lookup can be recorded under.
TaskIds == {ClickIdNames[i] : i \in 1..MaxClicks}

\* The request in flight for the lookup of cid ends: the resolver answers,
\* or the request's AbortSignal.timeout (5 s, 3 s) makes it throw.
Answers(cid) ==
    \/ \E data \in PrimaryData : PrimaryAnswers(cid, data)
    \/ PrimaryReportsFail(cid)
    \/ PrimaryThrows(cid)
    \/ \E data \in FallbackData : FallbackAnswers(cid, data)
    \/ FallbackFails(cid)

\* Tracking requests on the sample link, its deletion, and the resolvers,
\* with every request to a resolver ending.
NextLive ==
    \/ ListLinks
    \/ \E id \in LinkIds(MaxLinks) : DeleteLink(id)
    \/ \E code \in Codes, req \in Requests : Redirect(code, req)
    \/ \E code \in Codes, req \in Requests : TrackGet(code, req)
    \/ \E code \in Codes, req \in Requests, body \in BodyInputs :
          TrackPost(code, req, body)
    \/ \E cid \in TaskIds : Answers(cid)

SpecLive ==
    Init /\ [][NextLive]_vars /\ \A cid \in TaskIds : WF_vars(Answers(cid))

\* Tracking requests on the sample link while it is switched off and on and
\* deleted, with ip-api.com answering every lookup.
NextTrack ==
    \/ ListLinks
    \/ \E id \in LinkIds(MaxLinks) : DeleteLink(id)
    \/ \E id \in LinkIds(MaxLinks) : ToggleLink(id)
    \/ \E code \in Codes, req \in Requests : Redirect(code, req)
    \/ \E code \in Codes, req \in Requests : TrackGet(code, req)
    \/ \E code \in Codes, req \in Requests, body \in BodyInputs :
          TrackPost(code, req, body)
    \/ \E cid \in DOMAIN tasks, data \in PrimaryData : PrimaryAnswers(cid, data)

SpecTrack == Init /\ [][NextTrack]_vars

\* The registry operated alone, with the clock running.
NextRegistry ==
    \/ Tick
    \/ ListLinks
    \/ \E url \in Urls, custom \in RegistryCustomInputs :
          CreateLink(MaxRegistryLinks, url, custom)
    \/ \E id \in LinkIds(MaxRegistryLinks) : DeleteLink(id)
    \/ \E id \in LinkIds(MaxRegistryLinks) : ToggleLink(id)

SpecRegistry == Init /\ [][NextRegistry]_vars

\* The lookup exercised on its own and through the tracking handlers, for
\* requests with every kind of forwarded-for header, on the sample link.
NextLookup ==
    \/ ListLinks
    \/ \E ip \in LookupIPs : Locate(ip)
    \/ \E code \in Codes, req \in LookupRequests : Redirect(code, req)
    \/ \E code \in Codes, req \in LookupRequests : TrackGet(code, req)
    \/ \E code \in Codes, req \in LookupRequests : TrackPost(code, req, Absent)
    \/ \E cid \in DOMAIN tasks, data \in PrimaryData : PrimaryAnswers(cid, data)
    \/ \E cid \in DOMAIN tasks : PrimaryReportsFail(cid)
    \/ \E cid \in DOMAIN tasks : PrimaryThrows(cid)
    \/ \E cid \in DOMAIN tasks, data \in FallbackData : FallbackAnswers(cid, data)
    \/ \E cid \in DOMAIN tasks : FallbackFails(cid)

SpecLookup == Init /\ [][NextLookup]_vars

\* The registry with the clock running and clicks that start no lookup
\* (track POST with the client's position): the inputs of the statistics.
NextStats ==
    \/ Tick
    \/ ListLinks
    \/ \E url \in Urls, custom \in RegistryCustomInputs :
          CreateLink(MaxStatsLinks, url, custom)
    \/ \E id \in LinkIds(MaxStatsLinks) : DeleteLink(id)
    \/ \E id \in LinkIds(MaxStatsLinks) : ToggleLink(id)
    \/ \E code \in Codes, req \in Requests, l \in BodyLocations :
          TrackPost(code, req, Some(l))

SpecStats == Init /\ [][NextStats]_vars

\* ------------------------------------- /api/links/[id] (analytics GET)
\* Where the resolvers put a click, as far as the groupings read it.
AnalyticsLocations ==
    { [country |-> Absent, city |-> Absent],
      [country |-> Some("France"), city |-> Some("Paris")],
      [country |-> Some("France"), city |-> Absent],
      [country |-> Absent, city |-> Some("Paris")] }

\* How long before now a click was recorded: just now, 29 days and 30
\* days ago (the store has been up for a month; the clock of the model
\* covers its last hour).
ClickAges == {0, 29 * TicksPerDay, 30 * TicksPerDay}

\* ClickStorage.addClick for a click of a live link that was recorded
\* age ago and located at loc.
AddClick(linkId, loc, age) ==
    /\ nextClickId <= MaxAnalyticsClicks
    /\ IsSet(getLinkById(linksStore, linkId))
    /\ LET click == [NewClick(ClickIdNames[nextClickId], linkId, now - age,
                              PublicIP, sanitizeUserAgent(Absent), Absent)
                        EXCEPT !.country = loc.country, !.city = loc.city]
           added == addClick(Store, click)
       IN  /\ linksStore' = added.links
           /\ clicksStore' = added.clicks
    /\ nextClickId' = nextClickId + 1
    /\ UNCHANGED <<isInitialized, now, nextLinkId, tasks, response>>

\* After how many of the thirty readings of new Date() in
\* generateClicksByDate the clock ticks (WindowDays: not during them).
TickAfterReads == {1, 29, WindowDays}

\* The values the thirty readings take when the clock ticks after k.
ClockReads(k) == [i \in 1..WindowDays |-> IF i <= k THEN now ELSE now + 1]

\* GET /api/links/[id]: 404 without the link, else the analytics bundle.
Analytics(id, k) ==
    /\ k < WindowDays => now < MaxTime
    /\ LET a == getAnalytics(Store, id)
       IN  response' =
             IF ~a.found THEN Response("analytics", "NotFound", "", id)
             ELSE [op |-> "analytics", status |-> "ok", url |-> "",
                   linkId |-> id, clicks |-> a.clicks,
                   topCountries |-> Slice(groupClicksByCountry(a.clicks), 10),
                   topCities |-> Slice(groupClicksByCity(a.clicks), 10),
                   topReferers |-> generateTopReferers(a.clicks),
                   clicksByDate |->
                       generateClicksByDate(a.clicks, ClockReads(k))]
    /\ now' = ClockReads(k)[WindowDays]
    /\ UNCHANGED <<linksStore, clicksStore, isInitialized, nextLinkId,
                   nextClickId, tasks>>

\* The analytics over histories of located clicks, read within one day.
NextAnalytics ==
    \/ ListLinks
    \/ \E url \in Urls : CreateLink(MaxLinks, url, Absent)
    \/ \E id \in LinkIds(MaxLinks), loc \in AnalyticsLocations :
          AddClick(id, loc, 0)
    \/ \E id \in LinkIds(MaxLinks) : Analytics(id, WindowDays)

SpecAnalytics == Init /\ [][NextAnalytics]_vars

\* The analytics over histories of dated clicks of the sample link, with
\* the clock running while they are read.
NextDates ==
    \/ Tick
    \/ ListLinks
    \/ \E age \in ClickAges :
          AddClick(LinkIdNames[1], [country |-> Absent, city |-> Absent], age)
    \/ \E k \in TickAfterReads : Analytics(LinkIdNames[1], k)

SpecDates == Init /\ [][NextDates]_vars

\* The referers of the clicks appended in SpecReferers, in the order in
\* which they are first used: referring sites, strings that are no URL
\* (one of them spelt like a host), and none.
RefererPool ==
    << Some(SiteUrls[1]), Some("not a url"),
       Some(SiteUrls[2]), Some("google.com"),
       Some(SiteUrls[3]),
       Some(SiteUrls[4]),
       Some(SiteUrls[5]),
       Some(SiteUrls[6]),
       Some(SiteUrls[7]),
       Some(SiteUrls[8]),
       Some(SiteUrls[9]), Absent >>

\* The place in RefererPool of the referer appended last (0: none yet).
LastReferer(clicks) ==
    IF \E i \in 1..Len(RefererPool) : clicks[Len(clicks)].referer = RefererPool[i]
       /\ Len(clicks) > 2
    THEN CHOOSE i \in 1..Len(RefererPool) :
            clicks[Len(clicks)].referer = RefererPool[i]
    ELSE 0

\* ClickStorage.addClick for a click of the sample link whose referer is
\* the one appended last or the next of RefererPool.
AddRefererClick(linkId, j) ==
    /\ nextClickId <= MaxRefererClicks
    /\ IsSet(getLinkById(linksStore, linkId))
    /\ j \in 1..Len(RefererPool)
    /\ LET last == LastReferer(getClicksForLink(clicksStore, linkId))
       IN  j = last \/ j = last + 1
    /\ LET click == NewClick(ClickIdNames[nextClickId], linkId, now, PublicIP,
                             sanitizeUserAgent(Absent), RefererPool[j])
           added == addClick(Store, click)
       IN  /\ linksStore' = added.links
           /\ clicksStore' = added.clicks
    /\ nextClickId' = nextClickId + 1
    /\ UNCHANGED <<isInitialized, now, nextLinkId, tasks, response>>

\* The analytics over histories with many referers.
NextReferers ==
    \/ ListLinks
    \/ \E j \in 1..Len(RefererPool) : AddRefererClick(LinkIdNames[1], j)
    \/ Analytics(LinkIdNames[1], WindowDays)

SpecReferers == Init /\ [][NextReferers]_vars

\* Links made with a custom short code, deleted and made again while
\* requests for them are in flight.
NextReuse ==
    \/ \E url \in Urls, custom \in CustomCodes :
          CreateLink(MaxReuseLinks, url, Some(custom))
    \/ \E id \in LinkIds(MaxReuseLinks) : DeleteLink(id)
    \/ \E code \in CustomCodes, req \in Requests : Redirect(code, req)
    \/ \E code \in CustomCodes, req \in Requests : TrackPost(code, req, Absent)
    \/ \E cid \in DOMAIN tasks, data \in PrimaryData : PrimaryAnswers(cid, data)

SpecReuse == Init /\ [][NextReuse]_vars

\* ------------------------------------------------------------ properties
LinkIdsOf(links) == {links[i].value.id : i \in 1..Len(links)}
LiveLinkIds == LinkIdsOf(linksStore)

ClicksOf(clicks) ==
    UNION {{clicks[e].value[i] : i \in 1..Len(clicks[e].value)} :
              e \in 1..Len(clicks)}
StoredClicks == ClicksOf(clicksStore)

SampleClickIds == {"click_1", "click_2"}
TrackedClicks == {c \in StoredClicks : c.id \notin SampleClickIds}

\* The step in which the getLocationFromIP call of click cid returns.
Returned(cid) == tasks[cid].stage # "done" /\ tasks'[cid].stage = "done"

\* C1: every click in the click store belongs to a link that is in the
\* registry, under every interleaving, also when a track request looked
\* the link up before a delete and appends after it.
C1_NoOrphanClicks ==
    /\ \A c \in StoredClicks : c.linkId \in LiveLinkIds
    /\ MapKeys(clicksStore) \subseteq LiveLinkIds

\* C2: an append whose linkId no longer resolves to a live link is
\* discarded: the click store is unchanged, no history is created for
\* that linkId, and no link's clickCount is incremented.
C2_AppendToDeadLinkDiscarded ==
    [][\A cid \in DOMAIN tasks :
          (/\ tasks[cid].kind = "post"
           /\ Returned(cid)
           /\ tasks[cid].linkId \notin LiveLinkIds)
          => (clicksStore' = clicksStore /\ linksStore' = linksStore)]_vars

\* C3: after any sequence of Create (with or without a custom code),
\* Delete and Toggle, no two live links share a shortCode.
C3_UniqueShortCodes ==
    \A i, j \in 1..Len(linksStore) :
        linksStore[i].value.shortCode = linksStore[j].value.shortCode => i = j

\* Two live links, one inactive, after a delete and a create that
\* followed it.
C3_Witness ==
    /\ Len(linksStore) >= 2
    /\ nextLinkId - 1 > Len(linksStore)
    /\ \E i \in 1..Len(linksStore) : ~linksStore[i].value.isActive
    /\ response.op = "create" /\ response.status = "ok"

\* C4: Create with a customCode that is already registered fails with
\* DuplicateCode and leaves the registry and the click store unchanged.
C4_DuplicateCodeChangesNothing ==
    [][\A url \in Urls, code \in RegistryCustomCodes :
          (MapHas(linksStore, code)
           /\ CreateLink(MaxRegistryLinks, url, Some(code)))
          => (/\ response'.op = "create"
              /\ response'.status = "DuplicateCode"
              /\ linksStore' = linksStore
              /\ clicksStore' = clicksStore)]_vars

\* The create was refused for the code of a link that had been toggled
\* and clicked before.
C4_Witness ==
    /\ response.op = "create" /\ response.status = "DuplicateCode"
    /\ \E i \in 1..Len(linksStore) :
          /\ linksStore[i].value.shortCode \in CustomCodes
          /\ ~linksStore[i].value.isActive
          /\ linksStore[i].value.clickCount >= 1

\* C5: a redirect to the short code of a live, active link answers with
\* that link's originalUrl, appends exactly one click to that link's
\* history and increments that link's clickCount by exactly 1; no other
\* link and no other history changes.
C5_RedirectAppendsOne ==
    [][\A code \in Codes, req \in Requests :
          (Accepts(code) /\ Redirect(code, req))
          => LET link == Lookup(code)[1]
                 old == getClicksForLink(clicksStore, link.id)
                 new == getClicksForLink(clicksStore', link.id)
             IN  /\ response'.status = "ok"
                 /\ response'.url = link.originalUrl
                 /\ Len(new) = Len(old) + 1
                 /\ SubSeq(new, 1, Len(old)) = old
                 /\ new[Len(new)].linkId = link.id
                 /\ Len(linksStore') = Len(linksStore)
                 /\ \A i \in 1..Len(linksStore) :
                       linksStore'[i] =
                         IF linksStore[i].value.id = link.id
                         THEN [linksStore[i] EXCEPT !.value.clickCount = @ + 1]
                         ELSE linksStore[i]
                 /\ Len(clicksStore') = Len(clicksStore)
                 /\ \A e \in 1..Len(clicksStore) :
                       clicksStore[e].key # link.id
                          => clicksStore'[e] = clicksStore[e]]_vars

\* The redirect took a fresh link's clickCount from 0 to 1 while another
\* link holds clicks of its own.
C5_Witness ==
    /\ response.op = "redirect" /\ response.status = "ok"
    /\ \E i, j \in 1..Len(linksStore) :
          /\ linksStore[i].value.id = response.linkId
          /\ linksStore[i].value.clickCount = 1
          /\ response.url = linksStore[i].value.originalUrl
          /\ j # i
          /\ linksStore[j].value.clickCount = 2

\* C6: when a link is deleted while the enrichment of one of its clicks
\* is in flight, the arrival of the successful result changes nothing:
\* the link is not in the registry, no click history exists for its id,
\* and the registry and the click store are as before the arrival.
C6_LatePatchLeavesNoTrace ==
    [][\A cid \in DOMAIN tasks :
          (/\ tasks[cid].kind \in {"redirect", "track"}
           /\ Returned(cid)
           /\ tasks'[cid].result.success
           /\ tasks[cid].linkId \notin LiveLinkIds)
          => (/\ linksStore' = linksStore
              /\ clicksStore' = clicksStore
              /\ tasks[cid].linkId \notin LinkIdsOf(linksStore')
              /\ ~MapHas(clicksStore', tasks[cid].linkId))]_vars

ResolverBlocks == {[f \in EnrichmentFields |-> l[f]] : l \in Locations}
BodyBlocks ==
    {[f \in EnrichmentFields |->
         IF f = "latitude" THEN Some(l.latitude)
         ELSE IF f = "longitude" THEN Some(l.longitude)
         ELSE Absent] : l \in BodyLocations}

BothFailed(cid) ==
    /\ tasks[cid].outcome = "failed"
    /\ tasks[cid].primary = "threw"
    /\ tasks[cid].secondary = "failed"

C10_AtMostOnceState ==
    \A cid \in DOMAIN tasks :
        /\ tasks[cid].primaryCalls <= 1
        /\ tasks[cid].secondaryCalls <= 1
        /\ tasks[cid].patches <= 1
        /\ BothFailed(cid)
              => \A c \in StoredClicks : c.id = cid => Block(c) = EmptyBlock

C10_NoRetryStep ==
    \A cid \in DOMAIN tasks :
        tasks[cid].stage = "done"
            => (/\ cid \in DOMAIN tasks'
                /\ tasks'[cid] = tasks[cid]
                /\ \A c \in StoredClicks : c.id = cid =>
                      \A d \in ClicksOf(clicksStore') :
                          d.id = cid => Block(d) = Block(c))

\* C10: enrichment is at-most-once per click: at most one primary call,
\* one secondary call and one patch per click; once both resolvers have
\* failed the click's enrichment block is empty in every later state, and
\* a finished enrichment is never started again.
C10_AtMostOnce == []C10_AtMostOnceState /\ [][C10_NoRetryStep]_vars

\* Both resolvers failed for a stored click, and a request was served
\* after that.
C10_Witness ==
    \E cid \in DOMAIN tasks :
        /\ BothFailed(cid)
        /\ \E c \in StoredClicks : c.id = cid
        /\ response.op = "list"

\* The click a tracking handler builds in this step is in the store after it.
AppendedNow == \E c \in ClicksOf(clicksStore') : c.id = ClickIdNames[nextClickId]

\* C11: the request path never waits for enrichment: on every tracking
\* entry point (redirect GET, track GET, track POST) the step that accepts
\* the request appends the click and produces the response, whether or
\* not a resolver has answered; an answer that arrives later changes
\* neither the response nor what was appended.
C11_RequestNeverWaits ==
    [][(\A code \in Codes, req \in Requests, body \in BodyInputs :
            (/\ Accepts(code)
             /\ \/ Redirect(code, req)
                \/ TrackGet(code, req)
                \/ TrackPost(code, req, body))
            => (/\ AppendedNow
                /\ response'.status = "ok"
                /\ response'.url = Lookup(code)[1].originalUrl))
       /\ (\A cid \in DOMAIN tasks :
            Returned(cid)
            => (/\ response' = response
                /\ Len(FlattenClicks(clicksStore'))
                      = Len(FlattenClicks(clicksStore))))]_vars

\* The fields of a click that are captured at creation.
ImmutableFields == {"id", "linkId", "timestamp", "ip", "userAgent", "referer"}
Immutable(c) == [f \in ImmutableFields |-> c[f]]

\* This step appends one click to the history of linkId, and GetForLink
\* right after it returns, as the last click, the supplied click's
\* immutable fields with an enrichment block of the set blocks.
AppendsAs(linkId, click, blocks) ==
    LET old == getClicksForLink(clicksStore, linkId)
        new == getClicksForLink(clicksStore', linkId)
    IN  /\ Len(new) = Len(old) + 1
        /\ SubSeq(new, 1, Len(old)) = old
        /\ Immutable(new[Len(new)]) = Immutable(click)
        /\ Block(new[Len(new)]) \in blocks

\* The block the POST handler's click has when it is stored after the
\* awaited lookup returned t.result.
AwaitedBlock(t) ==
    IF t.result.success
    THEN [f \in EnrichmentFields |-> t.result.location[1][f]]
    ELSE EmptyBlock

\* The block of a click with the position of a POST body.
BodyBlock(l) ==
    [f \in EnrichmentFields |->
        IF f = "latitude" THEN Some(l.latitude)
        ELSE IF f = "longitude" THEN Some(l.longitude)
        ELSE Absent]

PatchedLive(cid) ==
    /\ tasks[cid].kind \in {"redirect", "track"}
    /\ tasks[cid].stage = "done"
    /\ tasks[cid].result.success
    /\ tasks[cid].linkId \in LiveLinkIds

\* GetForLink and GetAnalytics show click cid with the resolved fields.
C13_PatchVisibleState ==
    \A cid \in DOMAIN tasks :
        PatchedLive(cid)
        => LET h == getClicksForLink(clicksStore, tasks[cid].linkId)
               a == getAnalytics(Store, tasks[cid].linkId)
           IN  /\ a.found
               /\ a.clicks = h
               /\ a.totalClicks = Len(h)
               /\ \E i \in 1..Len(h) :
                     /\ h[i].id = cid
                     /\ h[i].linkId = tasks[cid].linkId
                     /\ Block(h[i]) = AwaitedBlock(tasks[cid])

\* The patch step writes the resolved fields and keeps the immutable
\* fields; no step changes an immutable field of a stored click.
C13_PatchStep ==
    /\ \A cid \in DOMAIN tasks :
          (/\ tasks[cid].kind \in {"redirect", "track"}
           /\ Returned(cid)
           /\ tasks'[cid].result.success
           /\ tasks[cid].linkId \in LiveLinkIds)
          => LET old == getClicksForLink(clicksStore, tasks[cid].linkId)
                 new == getClicksForLink(clicksStore', tasks[cid].linkId)
             IN  /\ Len(new) = Len(old)
                 /\ \E i \in 1..Len(old) : old[i].id = cid
                 /\ \A i \in 1..Len(old) :
                       IF old[i].id = cid
                       THEN /\ Immutable(new[i]) = Immutable(old[i])
                            /\ Block(new[i]) = AwaitedBlock(tasks'[cid])
                       ELSE new[i] = old[i]
    /\ \A c \in StoredClicks : \A d \in ClicksOf(clicksStore') :
          d.id = c.id => Immutable(d) = Immutable(c)

\* C13: a successful enrichment patch applied after Append, while the
\* click's link is live, is visible to every later GetForLink and
\* GetAnalytics call (the click carries the resolved fields), and the
\* click's id, linkId, timestamp, ip, userAgent and referer are the same
\* before and after the patch.
C13_PatchVisible == []C13_PatchVisibleState /\ [][C13_PatchStep]_vars

\* A redirect's click was patched from the fallback resolver's answer and
\* a track GET's click from the primary's, both for a live link, and the
\* link list was read after that.
C13_Witness ==
    /\ response.op = "list"
    /\ \E cid, other \in DOMAIN tasks :
          /\ PatchedLive(cid) /\ PatchedLive(other)
          /\ tasks[cid].kind = "redirect" /\ tasks[cid].secondary = "ok"
          /\ tasks[other].kind = "track" /\ tasks[other].primary = "ok"
          /\ \E c \in StoredClicks :
                c.id = cid /\ Block(c) = AwaitedBlock(tasks[cid])

\* C14: each enrichment field of a click is written at most once: once a
\* field of a stored click's enrichment block has a value, no later step
\* changes it or clears it.
C14_FieldsWrittenOnce ==
    [][\A c \in StoredClicks : \A d \in ClicksOf(clicksStore') :
          d.id = c.id
          => \A f \in EnrichmentFields : IsSet(c[f]) => d[f] = c[f]]_vars

\* A click stored with the client's position and a click patched by a
\* resolver answer are both still stored after a later toggle of their
\* link.
C14_Witness ==
    /\ response.op = "toggle" /\ response.status = "ok"
    /\ \E c \in TrackedClicks :
          Block(c) \in BodyBlocks /\ c.linkId = response.linkId
    /\ \E cid \in DOMAIN tasks :
          /\ tasks[cid].outcome = "patched"
          /\ tasks[cid].patches = 1
          /\ \E d \in TrackedClicks :
                /\ d.id = cid
                /\ d.linkId = response.linkId
                /\ \A f \in EnrichmentFields \ {"org"} : IsSet(d[f])

\* The IPv4 ranges that are private (RFC 1918), loopback, or reserved for
\* special use (RFC 6890): this network, shared address space, link-local,
\* protocol assignments, documentation, benchmarking, multicast, future use.
PrivateLoopbackOrReserved(ip) ==
    \/ ip[1] = 10
    \/ (ip[1] = 172 /\ ip[2] >= 16 /\ ip[2] <= 31)
    \/ (ip[1] = 192 /\ ip[2] = 168)
    \/ ip[1] = 127
    \/ ip[1] = 0
    \/ (ip[1] = 100 /\ ip[2] >= 64 /\ ip[2] <= 127)
    \/ (ip[1] = 169 /\ ip[2] = 254)
    \/ (ip[1] = 192 /\ ip[2] = 0 /\ ip[3] \in {0, 2})
    \/ (ip[1] = 198 /\ ip[2] \in {18, 19})
    \/ (ip[1] = 198 /\ ip[2] = 51 /\ ip[3] = 100)
    \/ (ip[1] = 203 /\ ip[2] = 0 /\ ip[3] = 113)
    \/ ip[1] >= 224

\* C15: for an IP in a private, loopback or reserved range neither the
\* primary nor the secondary resolver is ever called and the enrichment
\* outcome is an immediate failure, so the click stays unenriched.
C15_NonPublicNeverResolved ==
    \A cid \in DOMAIN tasks :
        PrivateLoopbackOrReserved(tasks[cid].ip)
        => (/\ tasks[cid].primaryCalls = 0
            /\ tasks[cid].secondaryCalls = 0
            /\ tasks[cid].stage = "done"
            /\ tasks[cid].outcome = "failed"
            /\ \A c \in StoredClicks : c.id = cid => Block(c) = EmptyBlock)

\* C16: in every reachable state every live link's clickCount equals the
\* number of clicks stored in that link's history, the seeded sample link
\* included.
C16_CountIsLedgerLength ==
    \A i \in 1..Len(linksStore) :
        LET link == linksStore[i].value
        IN  /\ MapHas(clicksStore, link.id)
            /\ link.clickCount = Len(getClicksForLink(clicksStore, link.id))

\* The sample link holds its two sample clicks and one tracked click, and
\* a created link holds one tracked click.
C16_Witness ==
    \E i, j \in 1..Len(linksStore) :
        /\ linksStore[i].value.id = LinkIdNames[1]
        /\ linksStore[i].value.clickCount = 3
        /\ Len(getClicksForLink(clicksStore, LinkIdNames[1])) = 3
        /\ linksStore[j].value.id = LinkIdNames[2]
        /\ linksStore[j].value.clickCount = 1
        /\ Len(getClicksForLink(clicksStore, LinkIdNames[2])) = 1

\* The clickCount of the live link with this id.
CountOf(links, id) == links[FindLinkIndex(links, id)].value.clickCount

HasAppended(cid) ==
    tasks[cid].kind \in {"redirect", "track"} \/ tasks[cid].stage = "done"

\* The ids of the clicks in the history of link id.
HistoryIds(id) ==
    LET h == getClicksForLink(clicksStore, id)
    IN  {h[i].id : i \in 1..Len(h)}

\* C18: with n redirect/track requests in flight concurrently for the
\* same live link and no delete, once they have appended the link's
\* history holds exactly n distinct clicks more and its clickCount has
\* grown by exactly n: under every interleaving no append or increment is
\* lost or duplicated.
C18_NoLostAppend ==
    (nextLinkId - 1 = Len(linksStore))
    => /\ \A id \in LiveLinkIds :
            LET h == getClicksForLink(clicksStore, id)
                seeded == HistoryIds(id) \cap SampleClickIds
                tracked == HistoryIds(id) \ SampleClickIds
            IN  /\ Cardinality(HistoryIds(id)) = Len(h)
                /\ {cid \in DOMAIN tasks :
                      tasks[cid].linkId = id /\ HasAppended(cid)}
                      \subseteq tracked
                /\ CountOf(linksStore, id)
                      = Cardinality(seeded) + Cardinality(tracked)
       /\ Cardinality({c.id : c \in TrackedClicks})
             = (nextClickId - 1)
                 - Cardinality({cid \in DOMAIN tasks : ~HasAppended(cid)})
       /\ \A c \in TrackedClicks : c.linkId \in LiveLinkIds

\* Two requests were in flight for the sample link at once: the POST was
\* accepted first and appended last, after the GET accepted behind it.
C18_Witness ==
    /\ nextLinkId - 1 = Len(linksStore)
    /\ LET h == getClicksForLink(clicksStore, LinkIdNames[1])
       IN  /\ Len(h) = 4
           /\ h[3].id = ClickIdNames[2]
           /\ h[4].id = ClickIdNames[1]
           /\ CountOf(linksStore, LinkIdNames[1]) = 4
    /\ {ClickIdNames[1], ClickIdNames[2]} \subseteq DOMAIN tasks
    /\ tasks[ClickIdNames[1]].kind = "post"
    /\ tasks[ClickIdNames[2]].kind \in {"redirect", "track"}

\* Every link in the registry has a click history.
C19_LinkHasHistory == \A id \in LiveLinkIds : MapHas(clicksStore, id)

\* A successful create registers, in its step, a new link with
\* clickCount 0 and isActive true and an empty history for its id.
C19_CreateStep ==
    \A url \in Urls, custom \in RegistryCustomInputs :
        (CreateLink(MaxRegistryLinks, url, custom) /\ response'.status = "ok")
        => LET id == response'.linkId
               made == getLinkById(linksStore', id)
           IN  /\ id \notin LiveLinkIds
               /\ IsSet(made)
               /\ made[1].clickCount = 0
               /\ made[1].isActive
               /\ made[1].originalUrl = url
               /\ made[1].shortCode = response'.url
               /\ IsSet(custom) => made[1].shortCode = custom[1]
               /\ MapHas(clicksStore', id)
               /\ MapGet(clicksStore', id) = <<>>
               /\ getClicksForLink(clicksStore', id) = <<>>
               /\ getAnalytics([links |-> linksStore', clicks |-> clicksStore'],
                               id).totalClicks = 0

\* C19: a successful Create returns a link with clickCount = 0 and
\* isActive = true and in the same step registers an empty click history
\* for the new link's id, so that GetForLink on the new id returns the
\* empty sequence, and in no state does a link exist without its history.
C19_CreateRegistersHistory == []C19_LinkHasHistory /\ [][C19_CreateStep]_vars

\* A link was created with a custom code beside the sample link: the new
\* link has no clicks, the sample link has.
C19_Witness ==
    /\ response.op = "create" /\ response.status = "ok"
    /\ response.url \in CustomCodes
    /\ response.linkId \in LiveLinkIds
    /\ CountOf(linksStore, response.linkId) = 0
    /\ MapHas(clicksStore, response.linkId)
    /\ MapGet(clicksStore, response.linkId) = <<>>
    /\ \E id \in LiveLinkIds : CountOf(linksStore, id) >= 2

\* C20: Delete(id) on a live link returns true and removes the link and
\* its whole click history in one step, leaving every other link and
\* every other link's history unchanged; Delete(id) on an unknown id
\* returns false and changes nothing.
C20_DeleteFrame ==
    [][\A id \in LinkIds(MaxReuseLinks) :
          DeleteLink(id)
          => IF id \in LiveLinkIds
             THEN /\ response'.status = "ok"
                  /\ id \notin LinkIdsOf(linksStore')
                  /\ ~MapHas(clicksStore', id)
                  /\ linksStore' = SelectSeq(linksStore,
                                             LAMBDA e : e.value.id # id)
                  /\ clicksStore' = SelectSeq(clicksStore,
                                              LAMBDA e : e.key # id)
             ELSE /\ response'.status = "NotFound"
                  /\ linksStore' = linksStore
                  /\ clicksStore' = clicksStore]_vars

\* The created link was deleted with a click in its history and its
\* lookup in flight; the sample link and its clicks are still there.
C20_Witness ==
    /\ response.op = "delete" /\ response.status = "ok"
    /\ response.linkId = LinkIdNames[2]
    /\ LiveLinkIds = {LinkIdNames[1]}
    /\ MapKeys(clicksStore) = {LinkIdNames[1]}
    /\ CountOf(linksStore, LinkIdNames[1]) = 2
    /\ Len(getClicksForLink(clicksStore, LinkIdNames[1])) = 2
    /\ \E cid \in DOMAIN tasks : tasks[cid].linkId = LinkIdNames[2]

\* C21: ToggleActive(id) on a live link negates that link's isActive,
\* returns true, and leaves every other field of that link, every other
\* link and all click histories unchanged, so that two toggles restore
\* the original state; on an unknown id it returns false and changes
\* nothing.
C21_ToggleFrame ==
    [][\A id \in LinkIds(MaxRegistryLinks) :
          ToggleLink(id)
          => IF id \in LiveLinkIds
             THEN /\ response'.status = "ok"
                  /\ Len(linksStore') = Len(linksStore)
                  /\ \A i \in 1..Len(linksStore) :
                        /\ linksStore'[i].key = linksStore[i].key
                        /\ linksStore'[i].value =
                              IF linksStore[i].value.id = id
                              THEN [id |-> linksStore[i].value.id,
                                    originalUrl |-> linksStore[i].value.originalUrl,
                                    shortCode |-> linksStore[i].value.shortCode,
                                    createdAt |-> linksStore[i].value.createdAt,
                                    clickCount |-> linksStore[i].value.clickCount,
                                    isActive |-> ~linksStore[i].value.isActive]
                              ELSE linksStore[i].value
                  /\ clicksStore' = clicksStore
                  /\ toggleLinkStatus(linksStore', id).found
                  /\ toggleLinkStatus(linksStore', id).links = linksStore
             ELSE /\ response'.status = "NotFound"
                  /\ linksStore' = linksStore
                  /\ clicksStore' = clicksStore]_vars

\* A link was toggled while an older link is inactive and a third is
\* active; the toggled link is active, so it had been toggled before.
C21_Witness ==
    /\ response.op = "toggle" /\ response.status = "ok"
    /\ Len(linksStore) >= 3
    /\ \E i, j, k \in 1..Len(linksStore) :
          /\ linksStore[i].value.id = response.linkId
          /\ linksStore[i].value.isActive
          /\ i # 1 /\ j # i /\ k # i /\ j # k
          /\ ~linksStore[j].value.isActive
          /\ linksStore[k].value.isActive

\* The short code is a key of the registry; its link is active.
Registered(code) == \E i \in 1..Len(linksStore) : linksStore[i].key = code
ActiveCode(code) ==
    \E i \in 1..Len(linksStore) :
        linksStore[i].key = code /\ linksStore[i].value.isActive

\* C22: a redirect or track request for a short code that is not
\* registered returns NotFound, and for a registered link with
\* isActive = false returns Inactive; in both cases no click is appended,
\* no clickCount changes and no enrichment task is launched.
C22_RefusedChangesNothing ==
    [][\A code \in Codes, req \in Requests, body \in BodyInputs :
          (/\ ~ActiveCode(code)
           /\ \/ Redirect(code, req)
              \/ TrackGet(code, req)
              \/ TrackPost(code, req, body))
          => (/\ response'.status =
                    IF Registered(code) THEN "Inactive" ELSE "NotFound"
              /\ response'.op \in {"redirect", "track", "post"}
              /\ linksStore' = linksStore
              /\ clicksStore' = clicksStore
              /\ tasks' = tasks
              /\ nextClickId' = nextClickId)]_vars

\* A request for an inactive link was refused while an earlier POST for
\* the same link, accepted when it was active, awaits its lookup.
C22_Witness ==
    /\ response.status = "Inactive"
    /\ \E i \in 1..Len(linksStore) :
          /\ ~linksStore[i].value.isActive
          /\ linksStore[i].value.clickCount = 3
          /\ \E cid \in DOMAIN tasks :
                /\ tasks[cid].linkId = linksStore[i].value.id
                /\ tasks[cid].kind = "post"
                /\ tasks[cid].stage = "primary"

\* The click of a failed enrichment is recorded and counted, as long as
\* its link is live.
C23_FailedClickRecorded ==
    \A cid \in DOMAIN tasks :
        (/\ tasks[cid].kind \in {"redirect", "track", "post"}
         /\ tasks[cid].outcome = "failed"
         /\ tasks[cid].linkId \in LiveLinkIds)
        => /\ cid \in HistoryIds(tasks[cid].linkId)
           /\ CountOf(linksStore, tasks[cid].linkId)
                 = Len(getClicksForLink(clicksStore, tasks[cid].linkId))

\* The step in which an enrichment fails: after a GET request nothing
\* but the lookup's record changes; the POST handler stores the bare
\* click, counts it and answers as it does on success.
C23_FailureStep ==
    \A cid \in DOMAIN tasks :
        (Returned(cid) /\ ~tasks'[cid].result.success)
        => /\ tasks'[cid].outcome = "failed"
           /\ tasks[cid].kind \in {"redirect", "track"}
                 => (/\ linksStore' = linksStore
                     /\ clicksStore' = clicksStore
                     /\ response' = response)
           /\ tasks[cid].kind = "post"
                 => (/\ response' = Response("post", "ok",
                                             tasks[cid].originalUrl,
                                             tasks[cid].linkId)
                     /\ AppendsAs(tasks[cid].linkId, tasks[cid].click[1],
                                  {EmptyBlock})
                     /\ \A id \in LiveLinkIds :
                           /\ id \in LinkIdsOf(linksStore')
                           /\ CountOf(linksStore', id) =
                                 CountOf(linksStore, id)
                                   + (IF id = tasks[cid].linkId THEN 1 ELSE 0))

\* C23: a failure of enrichment (both resolvers fail, time out, or the
\* task throws) never surfaces to the caller and never affects the
\* ledger: the click stays recorded with its clickCount increment, and
\* the response to the tracking request is the same as when enrichment
\* succeeds.
C23_FailureIsSwallowed == []C23_FailedClickRecorded /\ [][C23_FailureStep]_vars

\* The enrichment of a redirect's click failed at both resolvers and the
\* one of a POST's click on status 'fail'; both clicks are in the sample
\* link's history and the POST was answered ok.
C23_Witness ==
    /\ response.op = "post" /\ response.status = "ok"
    /\ \E cid, other \in DOMAIN tasks :
          /\ tasks[cid].kind = "redirect" /\ BothFailed(cid)
          /\ tasks[other].kind = "post"
          /\ tasks[other].outcome = "failed"
          /\ tasks[other].primary = "fail"
          /\ {cid, other} \subseteq HistoryIds(LinkIdNames[1])
          /\ LinkIdNames[1] \in LiveLinkIds
          /\ CountOf(linksStore, LinkIdNames[1]) = 4

FinalOutcomes == {"patched", "dropped", "failed"}

\* Every launched enrichment reaches a final outcome.
C24_EveryTaskFinishes ==
    \A cid \in TaskIds :
        (cid \in DOMAIN tasks)
            ~> (/\ cid \in DOMAIN tasks
                /\ tasks[cid].stage = "done"
                /\ tasks[cid].outcome \in FinalOutcomes)

\* No step cancels an enrichment, and a delete leaves every one of them
\* as it is, in flight or not.
C24_NoCancelStep ==
    /\ \A cid \in DOMAIN tasks :
          /\ cid \in DOMAIN tasks'
          /\ tasks[cid].stage = "done" => tasks'[cid] = tasks[cid]
    /\ \A id \in LinkIds(MaxLinks) : DeleteLink(id) => tasks' = tasks

\* C24: every launched enrichment task eventually reaches a final
\* outcome (patched, dropped because its target is gone, or failed),
\* given that each resolver call answers or times out; deleting the
\* target link while the task is in flight neither cancels the task nor
\* prevents it from finishing.
C24_TasksRunToCompletion == C24_EveryTaskFinishes /\ [][C24_NoCancelStep]_vars

\* The link of a redirect's click was deleted while its lookup was in
\* flight; the answer arrived afterwards and was dropped.
C24_Witness ==
    \E cid \in DOMAIN tasks :
        /\ tasks[cid].kind = "redirect"
        /\ tasks[cid].stage = "done"
        /\ tasks[cid].outcome = "dropped"
        /\ tasks[cid].result.success
        /\ tasks[cid].linkId \notin LiveLinkIds

\* The sum of the lengths of the histories of the first n links of the
\* registry.
RECURSIVE LedgerLengthSum(_)
LedgerLengthSum(n) ==
    IF n = 0 THEN 0
    ELSE Len(getClicksForLink(clicksStore, linksStore[n].value.id))
           + LedgerLengthSum(n - 1)

\* C25: the dashboard statistics computed in any reachable state satisfy
\* totalLinks = number of live links, totalClicks = sum over all live
\* links of the length of the link's click history, activeLinks = number
\* of live links with isActive = true.
C25_DashboardCounts ==
    LET stats == getDashboardStats(Store)
    IN  /\ stats.totalLinks = Cardinality(LiveLinkIds)
        /\ stats.totalClicks = LedgerLengthSum(Len(linksStore))
        /\ stats.activeLinks =
              Cardinality({i \in 1..Len(linksStore) : linksStore[i].value.isActive})

\* Link a comes before link b when the links are ordered newest first,
\* links created at the same time staying in the registry's order.
NewerFirst(a, b) ==
    \/ a.createdAt > b.createdAt
    \/ /\ a.createdAt = b.createdAt
       /\ FindLinkIndex(linksStore, a.id) < FindLinkIndex(linksStore, b.id)

\* C26: topPerformingLink is a live link whose clickCount is the maximum
\* over all live links; among several links with the maximum it is the
\* first one in the iteration order used (links ordered newest first); it
\* is absent exactly when the registry has no links.
C26_TopPerformingLink ==
    LET top == getDashboardStats(Store).topPerformingLink
        live == {linksStore[i].value : i \in 1..Len(linksStore)}
    IN  /\ IsSet(top) <=> Len(linksStore) > 0
        /\ IsSet(top)
              => /\ top[1] \in live
                 /\ \A l \in live : l.clickCount <= top[1].clickCount
                 /\ \A l \in live :
                       (l.clickCount = top[1].clickCount /\ l.id # top[1].id)
                       => NewerFirst(top[1], l)

\* The sample link and a newer link both have two clicks, a third link
\* has none: the newer of the two is the top performing link.
C26_Witness ==
    /\ Len(linksStore) = 3
    /\ \E i, j, k \in 1..Len(linksStore) :
          /\ linksStore[i].value.clickCount = 2
          /\ linksStore[j].value.clickCount = 2
          /\ linksStore[k].value.clickCount = 0
          /\ linksStore[i].value.createdAt < linksStore[j].value.createdAt
          /\ linksStore[j].value.createdAt < linksStore[k].value.createdAt
          /\ getDashboardStats(Store).topPerformingLink
                = Some(linksStore[j].value)

\* The ids a request for analytics may name.
AnalyticsIds == {LinkIdNames[i] : i \in 1..MaxLinks}

\* C27: GetAnalytics(linkId) returns NotFound exactly when no live link
\* has that id; otherwise it returns the link with totalClicks equal to
\* the length of the returned clicks sequence and uniqueClicks equal to
\* the number of distinct ip values in it (so uniqueClicks <= totalClicks,
\* and uniqueClicks = 0 iff totalClicks = 0), whether the clicks are
\* enriched or not.
C27_Analytics ==
    \A id \in LinkIds(MaxReuseLinks) :
        LET a == getAnalytics(Store, id)
        IN  /\ ~a.found <=> id \notin LiveLinkIds
            /\ a.found
                  => /\ IsSet(a.link)
                     /\ a.link[1].id = id
                     /\ \E i \in 1..Len(linksStore) :
                           linksStore[i].value = a.link[1]
                     /\ a.totalClicks = Len(a.clicks)
                     /\ a.uniqueClicks
                           = Cardinality({a.clicks[i].ip : i \in 1..Len(a.clicks)})
                     /\ a.uniqueClicks <= a.totalClicks
                     /\ (a.uniqueClicks = 0) <=> (a.totalClicks = 0)

\* A live link has two clicks from one address, one enriched and one not
\* (2 clicks, 1 unique), and another id has no live link.
C27_Witness ==
    \E id \in LinkIds(MaxReuseLinks), gone \in LinkIds(MaxReuseLinks) :
        LET a == getAnalytics(Store, id)
        IN  /\ a.found
            /\ a.totalClicks = 2
            /\ a.uniqueClicks = 1
            /\ Block(a.clicks[1]) # EmptyBlock
            /\ Block(a.clicks[2]) = EmptyBlock
            /\ ~getAnalytics(Store, gone).found

\* The last response is an analytics bundle.
AnalyticsAnswered == response.op = "analytics" /\ response.status = "ok"

\* The country and city labels as the specification words them.
CountryName(c) == IF IsSet(c.country) THEN c.country[1] ELSE "Unknown"
CityName(c) ==
    IF ~IsSet(c.city) THEN "Unknown"
    ELSE IF c.city[1] = "Paris" /\ CountryName(c) = "France" THEN "Paris, France"
    ELSE IF c.city[1] = "Paris" /\ CountryName(c) = "Unknown" THEN "Paris, Unknown"
    ELSE IF c.city[1] = "San Francisco" /\ CountryName(c) = "United States"
         THEN "San Francisco, United States"
    ELSE IF c.city[1] = "Toronto" /\ CountryName(c) = "Canada"
         THEN "Toronto, Canada"
    ELSE "?"

\* Where a label is first met in a sequence of labels.
FirstMet(labels, l) ==
    CHOOSE i \in 1..Len(labels) :
        labels[i] = l /\ \A h \in 1..(i - 1) : labels[h] # l

RECURSIVE SumCounts(_, _)
SumCounts(entries, n) ==
    IF n = 0 THEN 0 ELSE entries[n].count + SumCounts(entries, n - 1)

\* entries groups labels: one entry for each distinct label with the
\* number of its occurrences, sorted by count descending, entries with
\* equal counts in the order their labels were first met.
Groups(entries, labels) ==
    LET met == {labels[i] : i \in 1..Len(labels)}
    IN  /\ {entries[i].name : i \in 1..Len(entries)} = met
        /\ Len(entries) = Cardinality(met)
        /\ \A i \in 1..Len(entries) :
              entries[i].count
                = Cardinality({h \in 1..Len(labels) : labels[h] = entries[i].name})
        /\ SumCounts(entries, Len(entries)) = Len(labels)
        /\ \A i, j \in 1..Len(entries) :
              i < j => /\ entries[i].count >= entries[j].count
                       /\ entries[i].count = entries[j].count
                            => FirstMet(labels, entries[i].name)
                                 < FirstMet(labels, entries[j].name)

\* C28: GroupByCountry returns one entry per distinct country label
\* (absent country counted under "Unknown"), the counts sum to the number
\* of clicks, entries are sorted by count descending, and entries with
\* equal counts appear in the order their label was first encountered in
\* the input (e.g. [("US",1), ("Unknown",1)] when the US click comes
\* first).
C28_GroupByCountry ==
    AnalyticsAnswered
    => Groups(response.topCountries,
              [i \in 1..Len(response.clicks) |-> CountryName(response.clicks[i])])

\* Three countries, the one met last with two clicks and listed first,
\* the other two tied at one click in the order they were met.
C28_Witness ==
    /\ AnalyticsAnswered
    /\ Len(response.clicks) = 4
    /\ CountryName(response.clicks[1]) = "United States"
    /\ CountryName(response.clicks[2]) = "Canada"
    /\ CountryName(response.clicks[3]) = "Unknown"
    /\ response.topCountries
         = << [name |-> "Unknown", count |-> 2],
              [name |-> "United States", count |-> 1],
              [name |-> "Canada", count |-> 1] >>

\* C29: GroupByCity groups clicks by the pair (city, country) under the
\* label "<city>, <country>", counts every click with no city under the
\* single label "Unknown", and orders entries by count descending with
\* ties in first-encountered order; the counts sum to the number of
\* clicks.
C29_GroupByCity ==
    AnalyticsAnswered
    => Groups(response.topCities,
              [i \in 1..Len(response.clicks) |-> CityName(response.clicks[i])])

\* Two clicks from Paris, one with and one without a country, give two
\* entries in the order they were met.
C29_Witness ==
    /\ AnalyticsAnswered
    /\ Len(response.clicks) = 2
    /\ response.clicks[1].city = Some("Paris")
    /\ response.clicks[2].city = Some("Paris")
    /\ response.topCities
         = << [name |-> "Paris, France", count |-> 1],
              [name |-> "Paris, Unknown", count |-> 1] >>

RECURSIVE SumEntries(_, _)
SumEntries(entries, n) ==
    IF n = 0 THEN 0 ELSE entries[n].clicks + SumEntries(entries, n - 1)

\* entries is the view of the clicks cs over the WindowDays days ending
\* with the day today.
WindowOf(entries, cs, today) ==
    /\ Len(entries) = WindowDays
    /\ \A j \in 1..Len(entries) : entries[j].date = today - (WindowDays - j)
    /\ \A j, h \in 1..Len(entries) : j < h => entries[j].date < entries[h].date
    /\ SumEntries(entries, Len(entries))
         = Cardinality({i \in 1..Len(cs) :
              DayOf(cs[i].timestamp) \in (today - (WindowDays - 1))..today})
    /\ \A j \in 1..Len(entries) :
          entries[j].clicks
            = Cardinality({i \in 1..Len(cs) :
                             DayOf(cs[i].timestamp) = entries[j].date})

\* C30: ClicksByDate returns exactly 30 entries for any click history, one
\* per calendar day of the window ending today, in strictly increasing
\* date order (oldest first, today last), and the entry counts sum to the
\* number of clicks whose day falls inside that 30-day window; clicks
\* outside the window change no entry. Today is the day on which the
\* request is handled: the day it begins or the day it ends on.
C30_ClicksByDate ==
    [][\A id \in AnalyticsIds, k \in TickAfterReads :
          (Analytics(id, k) /\ response'.status = "ok")
          => \E today \in {DayOf(now), DayOf(now')} :
                WindowOf(response'.clicksByDate, response'.clicks, today)]_vars

\* C30 for the requests during which the day does not change.
C30_WithinOneDay ==
    [][\A id \in AnalyticsIds, k \in TickAfterReads :
          (Analytics(id, k) /\ response'.status = "ok" /\ DayOf(now) = DayOf(now'))
          => WindowOf(response'.clicksByDate, response'.clicks, DayOf(now))]_vars

\* A response of a request within one day whose history has a click of
\* today, one of the window's first day and one older than the window.
C30_WithinOneDayWitness ==
    /\ AnalyticsAnswered
    /\ \A j \in 1..(WindowDays - 1) :
          response.clicksByDate[j].date < response.clicksByDate[j + 1].date
    /\ response.clicksByDate[WindowDays].clicks > 0
    /\ response.clicksByDate[1].clicks > 0
    /\ \E i \in 1..Len(response.clicks) :
          DayOf(response.clicks[i].timestamp) < response.clicksByDate[1].date

\* The referers that are URLs, with their hosts, and those that are not.
RefererHosts ==
    [u \in {"https://google.com", "https://google.com/search"} |-> "google.com"]
    @@ [u \in {"https://s1.example/p"} |-> "s1.example"]
    @@ [u \in {"https://s2.example/p"} |-> "s2.example"]
    @@ [u \in {"https://s3.example/p"} |-> "s3.example"]
    @@ [u \in {"https://s4.example/p"} |-> "s4.example"]
    @@ [u \in {"https://s5.example/p"} |-> "s5.example"]
    @@ [u \in {"https://s6.example/p"} |-> "s6.example"]
    @@ [u \in {"https://s7.example/p"} |-> "s7.example"]
    @@ [u \in {"https://s8.example/p"} |-> "s8.example"]
    @@ [u \in {"https://s9.example/p"} |-> "s9.example"]
NoUrls == {"not a url", "google.com"}

\* The referer label as the specification words it.
RefererName(c) ==
    IF ~IsSet(c.referer) THEN "Direct"
    ELSE IF c.referer[1] \in DOMAIN RefererHosts THEN RefererHosts[c.referer[1]]
    ELSE IF c.referer[1] \in NoUrls THEN c.referer[1]
    ELSE "?"

\* C31: TopReferers labels a click with no referer as "Direct", a click
\* with a parseable referer URL by the URL's host, and a click with an
\* unparseable referer by the referer string itself (never dropping it);
\* it returns at most 10 entries sorted by count descending, and these
\* are the 10 highest counts among all labels.
C31_TopReferers ==
    AnalyticsAnswered
    => LET cs == response.clicks
           e == response.topReferers
           labels == {RefererName(cs[i]) : i \in 1..Len(cs)}
           CountFor(l) == Cardinality({i \in 1..Len(cs) : RefererName(cs[i]) = l})
           listed == {e[i].name : i \in 1..Len(e)}
       IN  /\ Len(e) <= 10
           /\ Len(e) = IF Cardinality(labels) < 10 THEN Cardinality(labels) ELSE 10
           /\ listed \subseteq labels
           /\ Cardinality(listed) = Len(e)
           /\ \A i \in 1..Len(e) : e[i].count = CountFor(e[i].name)
           /\ \A i, j \in 1..Len(e) : i < j => e[i].count >= e[j].count
           /\ \A l \in labels \ listed :
                 \A i \in 1..Len(e) : CountFor(l) <= e[i].count

\* Eleven labels, ten listed: the site met last, with two clicks, comes
\* second, after "google.com" (one click with the URL, one with the bare
\* string); "Direct" and the string that is no URL are listed, and one
\* label with one click is left out.
C31_Witness ==
    /\ AnalyticsAnswered
    /\ Len(response.clicks) = 13
    /\ Cardinality({RefererName(response.clicks[i]) : i \in 1..13}) = 11
    /\ Len(response.topReferers) = 10
    /\ response.topReferers[1] = [name |-> "google.com", count |-> 2]
    /\ response.topReferers[2] = [name |-> "s8.example", count |-> 2]
    /\ \E i, j \in 3..10 :
          /\ response.topReferers[i] = [name |-> "Direct", count |-> 1]
          /\ response.topReferers[j] = [name |-> "not a url", count |-> 1]

\* The result of ListAll in the current state.
C32_Listed ==
    LET all == getAllLinks(linksStore)
    IN  /\ Len(all) = Len(linksStore)
        /\ \A i \in 1..Len(linksStore) :
              Cardinality({j \in 1..Len(all) : all[j] = linksStore[i].value}) = 1
        /\ \A j \in 1..(Len(all) - 1) : all[j].createdAt >= all[j + 1].createdAt

\* A GET /api/links that finds the sample data loaded only lists.
C32_ListStep == (ListLinks /\ isInitialized) => UNCHANGED <<linksStore, clicksStore>>

\* C32: ListAll returns every live link exactly once, ordered by createdAt
\* descending (for any two adjacent results the earlier one was created
\* no earlier than the later one), and does not change the registry.
C32_ListAll == []C32_Listed /\ [][C32_ListStep]_vars

\* Three links created at three times and one of them deactivated have
\* just been listed: the list is the registry backwards.
C32_Witness ==
    /\ response.op = "list"
    /\ Len(linksStore) = 3
    /\ linksStore[1].value.createdAt < linksStore[2].value.createdAt
    /\ linksStore[2].value.createdAt < linksStore[3].value.createdAt
    /\ ~linksStore[2].value.isActive
    /\ getAllLinks(linksStore)
         = <<linksStore[3].value, linksStore[2].value, linksStore[1].value>>

\* The ids of a history, in its order.
IdsIn(h) == [i \in 1..Len(h) |-> h[i].id]
IsPrefix(a, b) == Len(a) <= Len(b) /\ SubSeq(b, 1, Len(a)) = a

\* The step in which the callback of a GET request's lookup runs.
PatchStep ==
    \E cid \in DOMAIN tasks :
        tasks[cid].kind \in {"redirect", "track"} /\ Returned(cid)

\* Every step keeps each history's clicks in place and adds new clicks
\* only at its end (a delete of the link empties it); the step of an
\* enrichment patch keeps every history's clicks and the set of
\* histories.
C33_OrderStep ==
    /\ \A id \in LinkIds(MaxLinks) :
          LET old == IdsIn(getClicksForLink(clicksStore, id))
              new == IdsIn(getClicksForLink(clicksStore', id))
          IN  \/ IsPrefix(old, new)
              \/ (id \in LiveLinkIds /\ ~IsSet(getLinkById(linksStore', id))
                  /\ new = <<>>)
    /\ PatchStep
          => /\ MapKeys(clicksStore') = MapKeys(clicksStore)
             /\ \A id \in LinkIds(MaxLinks) :
                   IdsIn(getClicksForLink(clicksStore', id))
                     = IdsIn(getClicksForLink(clicksStore, id))

\* C33: GetForLink returns the link's clicks in the order in which they
\* were appended: if click a was appended to a link before click b, a
\* precedes b in every later GetForLink result, and enrichment patches
\* never reorder, add or remove clicks.
C33_AppendOrder == [][C33_OrderStep]_vars

\* The click of the second request was appended before the click of the
\* first (a POST that waited for its lookup) and was patched after that:
\* it is still the earlier one.
C33_Witness ==
    /\ {ClickIdNames[1], ClickIdNames[2]} \subseteq DOMAIN tasks
    /\ tasks[ClickIdNames[1]].kind = "post"
    /\ tasks[ClickIdNames[2]].kind = "redirect"
    /\ tasks[ClickIdNames[2]].stage = "done"
    /\ \E id \in LiveLinkIds :
          LET h == getClicksForLink(clicksStore, id)
          IN  \E i, j \in 1..Len(h) :
                /\ i < j
                /\ h[i].id = ClickIdNames[2]
                /\ h[j].id = ClickIdNames[1]
                /\ Block(h[i]) # EmptyBlock

\* C34: GroupByCountry, GroupByCity and TopReferers over a link with zero
\* clicks return empty sequences and ClicksByDate returns 30 zero
\* entries; none of them fails.
C34_ZeroClicks ==
    \A id \in AnalyticsIds :
        (response.op = "analytics" /\ response.linkId = id
         /\ IsSet(getLinkById(linksStore, id))
         /\ getClicksForLink(clicksStore, id) = <<>>)
        => /\ response.status = "ok"
           /\ response.clicks = <<>>
           /\ response.topCountries = <<>>
           /\ response.topCities = <<>>
           /\ response.topReferers = <<>>
           /\ Len(response.clicksByDate) = 30
           /\ \A j \in 1..Len(response.clicksByDate) :
                 response.clicksByDate[j].clicks = 0

\* The analytics of a link without clicks were requested, next to a link
\* that has clicks.
C34_Witness ==
    /\ AnalyticsAnswered
    /\ response.clicks = <<>>
    /\ Len(linksStore) = 2
    /\ \E id \in LiveLinkIds : Len(getClicksForLink(clicksStore, id)) = 4

\* Whether the link with this id is in the registry and inactive.
Inactive(links, id) ==
    IsSet(getLinkById(links, id)) /\ ~getLinkById(links, id)[1].isActive

\* C35: no click is ever appended to a link whose isActive is false at
\* the moment of the append: under every interleaving of track/redirect
\* requests with ToggleActive (including a toggle that happens between a
\* track request's active check and its append), a link's clickCount
\* does not grow while the link is inactive.
C35_NoAppendWhileInactive ==
    [][\A id \in LinkIds(MaxLinks) :
          Inactive(linksStore, id)
          => /\ IsSet(getLinkById(linksStore', id))
                  => CountOf(linksStore', id) <= CountOf(linksStore, id)
             /\ Len(getClicksForLink(clicksStore', id))
                  <= Len(getClicksForLink(clicksStore, id))]_vars

\* C35 for the steps of the handlers themselves: a request that finds the
\* link inactive appends nothing.
C35_RefusedWhileInactive ==
    [][\A code \in Codes, req \in Requests, body \in BodyInputs :
          (Redirect(code, req) \/ TrackGet(code, req) \/ TrackPost(code, req, body))
          => \A id \in LinkIds(MaxLinks) :
                Inactive(linksStore, id)
                => /\ CountOf(linksStore', id) = CountOf(linksStore, id)
                   /\ getClicksForLink(clicksStore', id)
                        = getClicksForLink(clicksStore, id)]_vars

RECURSIVE ClickCountSum(_, _)
ClickCountSum(links, n) ==
    IF n = 0 THEN 0 ELSE links[n].clickCount + ClickCountSum(links, n - 1)

\* C36: in every reachable state the dashboard's totalClicks equals the
\* sum of clickCount over all links returned by ListAll, so the two click
\* totals a user can see (the dashboard total and the per-link counters)
\* never disagree.
C36_TotalsAgree ==
    LET all == getAllLinks(linksStore)
    IN  getDashboardStats(Store).totalClicks = ClickCountSum(all, Len(all))

\* C36 for the states in which every history belongs to a link of the
\* registry.
C36_TotalsAgreeWithoutOrphans ==
    (MapKeys(clicksStore) \subseteq LiveLinkIds) => C36_TotalsAgree

\* A link that enters the registry after the sample data was loaded has
\* clickCount 0 and an empty history.
C37_CreateStep ==
    \A id \in LinkIds(MaxReuseLinks) :
        (isInitialized /\ ~IsSet(getLinkById(linksStore, id))
         /\ IsSet(getLinkById(linksStore', id)))
        => /\ CountOf(linksStore', id) = 0
           /\ MapHas(clicksStore', id)
           /\ getClicksForLink(clicksStore', id) = <<>>

\* When the lookup made for a link that is no longer in the registry
\* returns, its continuation changes no link and no live link's history.
C37_OldTaskStep ==
    \A cid \in DOMAIN tasks :
        (Returned(cid) /\ tasks[cid].linkId \notin LiveLinkIds)
        => /\ linksStore' = linksStore
           /\ \A id \in LiveLinkIds :
                 getClicksForLink(clicksStore', id)
                   = getClicksForLink(clicksStore, id)

\* C37: after a link with a custom short code is deleted and a new link
\* is created with the same short code, the new link starts with
\* clickCount 0 and an empty history, and no append or enrichment patch
\* that was launched for the old link ever changes the new link's
\* clickCount or history.
C37_ReusedCode == [][C37_CreateStep /\ C37_OldTaskStep]_vars

\* The second link with the custom code was deleted with a POST and a
\* redirect in flight for it, the third link has the same code, and both
\* lookups have returned: the third link has no click.
C37_Witness ==
    /\ Len(linksStore) >= 1
    /\ \E i \in 1..Len(linksStore) :
          /\ linksStore[i].value.id = LinkIdNames[3]
          /\ linksStore[i].value.shortCode \in CustomCodes
          /\ linksStore[i].value.clickCount = 0
    /\ getClicksForLink(clicksStore, LinkIdNames[3]) = <<>>
    /\ ~IsSet(getLinkById(linksStore, LinkIdNames[2]))
    /\ \E post, get \in DOMAIN tasks :
          /\ tasks[post].kind = "post" /\ tasks[get].kind = "redirect"
          /\ tasks[post].linkId = LinkIdNames[2]
          /\ tasks[get].linkId = LinkIdNames[2]
          /\ tasks[post].stage = "done" /\ tasks[get].stage = "done"

\* What getLocationFromIP can return.
LocationResults == {Success(l) : l \in Locations} \cup {Failure}

\* From the current state a request to either GET entry point leaves the
\* same registry and click store.
C38_SameAccept ==
    \A code \in Codes, req \in Requests :
        (Accepts(code) /\ nextClickId <= MaxClicks)
        => LET link == Lookup(code)[1]
               click == BuildClick(link, req)
               r == trackGet(Store, "redirect", link, click)
               t == trackGet(Store, "track", link, click)
           IN  r.links = t.links /\ r.clicks = t.clicks

\* From the current state the callbacks of the two entry points leave the
\* same registry and click store, for every lookup in flight for a GET
\* request and everything it can return.
C38_SameCallback ==
    \A cid \in DOMAIN tasks, result \in LocationResults :
        (tasks[cid].kind \in {"redirect", "track"} /\ tasks[cid].stage # "done")
        => LET returned == [tasks[cid] EXCEPT !.result = result]
               r == redirectCallback(Store, cid, returned)
               t == trackCallback(Store, cid, returned)
           IN  r.links = t.links /\ r.clicks = t.clicks

C39_PatchFrame(cid) ==
    /\ linksStore' = linksStore
    /\ Len(clicksStore') = Len(clicksStore)
    /\ \A e \in 1..Len(clicksStore) :
          /\ clicksStore'[e].key = clicksStore[e].key
          /\ Len(clicksStore'[e].value) = Len(clicksStore[e].value)
          /\ \A i \in 1..Len(clicksStore[e].value) :
                LET old == clicksStore[e].value[i]
                    new == clicksStore'[e].value[i]
                IN  IF old.id = cid
                    THEN /\ Immutable(new) = Immutable(old)
                         /\ clicksStore[e].key = tasks[cid].linkId
                    ELSE new = old

====
